---------------------------- MODULE Spec2Model ----------------------------
(***************************************************************************)
(* A model of the flight itinerary tools of varunr89/tools:                *)
(*   flight-optimizer/flight_optimizer.py      (the direct optimizer)      *)
(*   flight-optimizer/flight_sweep_collect.py  (sweep phase 1, the cache)  *)
(*   flight-optimizer/flight_sweep_analyze.py  (sweep phase 2, scenarios)  *)
(*                                                                         *)
(* Conventions.                                                            *)
(*  - A date string "YYYY-MM-DD" is the tuple <<y, m, d>>; strptime and    *)
(*    strftime are the conversions to and from the day number of 2026.     *)
(*  - A carrier string is the sequence of its pieces: the names and the    *)
(*    ", " that ', '.join puts between them.                               *)
(*  - float('inf') is Inf, a number above every amount of the model.       *)
(*  - duration_hours is kept in minutes (60 * hours); the inputs are       *)
(*    chosen so that minutes * COST_PER_HOUR / 60 is a whole number.       *)
(*  - Display-only fields (departure, arrival, price_str, is_best) are     *)
(*    not read by any computation and are left out of the records.         *)
(***************************************************************************)
EXTENDS Integers, Sequences, FiniteSets, TLC

VARIABLES
    prog,                   \* which program runs: optimizer | sweep | leg | call | weekdays | pomodoro | dedupe
    pc,                     \* the program's position
    fast_flights_available, \* FAST_FLIGHTS_AVAILABLE (set by the import)
    opt,                    \* optimizer: index into departure_options
    cands,                  \* optimizer: candidate lists fetched for this grid point
    all_itineraries,        \* optimizer: main's aggregate list
    built,                  \* history: the list last handed to a ranker, in emission order
    itins,                  \* optimizer: the list the last builder call returned
    runs,                   \* history: one record per finished builder call
    printed,                \* the final report on the console
    console,                \* console lines about skipped options and scenario counts
    persisted,              \* what was written to the results JSON
    faults,                 \* provider responses so far that were not the nominal one
    lastFetch,              \* history: the last adapter call and what it returned
    netCalls,               \* number of network calls issued
    pace,                   \* the time slept since the last Duffel call, and before it
    cache,                  \* sweep: the cache directory, file name -> content
    todo,                   \* collect: the searches still to examine
    pending,                \* collect: data fetched and not yet saved
    gp,                     \* analyze: index of the next grid point
    scenarios,              \* analyze: build_scenarios' list
    leg,                    \* leg check: the leg under test
    verdict,                \* leg check: what passes_constraints returned
    args,                   \* direct call: the arguments of search_trip_option
    session,                \* pomodoro: the PomodoroSession object
    returns,                \* history: what each advance(), each count_weekdays() returned
    sound,                  \* pomodoro history: what sound_for_completed_phase returned
    frames,                 \* video_ocr: the frames handed to dedupe_frames
    ratio,                  \* video_ocr: max_diff_ratio, in hundredths
    deduped                 \* video_ocr: what dedupe_frames returned

vars == <<prog, pc, fast_flights_available, opt, cands, all_itineraries, built,
          itins, runs, printed, console, persisted, faults, lastFetch, netCalls, pace,
          cache,
          todo, pending, gp, scenarios, leg, verdict, args, session, returns,
          sound, frames, ratio, deduped>>

-----------------------------------------------------------------------------
(* Program constants *)

COST_PER_HOUR == 20
COST_PER_STOP == 200
COST_PER_WEEKDAY == 200
MAX_STOPS == 1
MAX_LAYOVER_HOURS == 4
\* float('inf'), the invalid-price sentinel
Inf == 1000000
\* legs[:20]
TopLegs == 20
\* sea_mxp_options[:5]
TopCombine == 5
\* itineraries[:10]
TopPerPoint == 10
\* sorted_its[:30]
TopSaved == 30
\* sorted_its[:10] in print_results, scenarios[:10] in analyze's main
TopPrinted == 10

(* Bounds of the model *)

\* provider responses per run of the optimizer that may differ from the nominal
\* response (the collect phase: one per run)
MaxFaults == 1

\* the largest --sessions drawn
MaxSessions == 9

\* the largest number of frames handed to dedupe_frames
MaxFrames == 3

\* the longest range of dates, in days from its start, handed to count_weekdays
MaxTripDays == 30

\* the grid point of the sweep whose searches the provider may answer with a fault
FaultyPoint == 1

\* the searches an earlier run of the collect phase got through
PriorTasks == 3

\* the largest number of stops of a leg put to the constraint filters
MaxStopsDrawn == 3

-----------------------------------------------------------------------------
(* Sequences *)

Range(s) == {s[i] : i \in DOMAIN s}

Take(s, n) == SubSeq(s, 1, IF Len(s) < n THEN Len(s) ELSE n)

Min2(a, b) == IF a < b THEN a ELSE b

RECURSIVE SumSeq(_)
SumSeq(s) == IF s = <<>> THEN 0 ELSE s[1] + SumSeq(Tail(s))

\* len(l) of each list of a sequence of lists
Sizes(lists) == [i \in DOMAIN lists |-> Len(lists[i])] \o <<>>

RECURSIVE Flatten(_)
Flatten(ss) == IF ss = <<>> THEN <<>> ELSE ss[1] \o Flatten(Tail(ss))

(* list.sort(key=...): Python's sort is stable. keys[i] is the key of s[i]. *)
(* s[i] goes after every element of smaller key and after the elements of  *)
(* equal key that stood before it.                                         *)
PlaceStable(i, keys) ==
    Cardinality({j \in DOMAIN keys : keys[j] < keys[i] \/ (keys[j] = keys[i] /\ j < i)}) + 1

\* an unstable order: elements of equal key come out reversed
PlaceTiesReversed(i, keys) ==
    Cardinality({j \in DOMAIN keys : keys[j] < keys[i] \/ (keys[j] = keys[i] /\ j > i)}) + 1

Place(i, keys) == PlaceStable(i, keys)

SortByKeys(s, keys) ==
    LET places == [i \in DOMAIN s |-> Place(i, keys)] \o <<>>
    IN [p \in DOMAIN s |-> s[CHOOSE i \in DOMAIN s : places[i] = p]] \o <<>>

-----------------------------------------------------------------------------
(* Dates: datetime.strptime(s, "%Y-%m-%d"), timedelta, strftime *)

Year == 2026

DaysInMonth(m) ==
    CASE m \in {1, 3, 5, 7, 8, 10, 12} -> 31
      [] m \in {4, 6, 9, 11} -> 30
      [] OTHER -> 28

RECURSIVE DaysBefore(_)
DaysBefore(m) == IF m = 1 THEN 0 ELSE DaysBefore(m - 1) + DaysInMonth(m - 1)

\* strptime: the day number within 2026 (1 = 2026-01-01)
strptime(date) == DaysBefore(date[2]) + date[3]

\* strftime: the date string of a day number
strftime(n) ==
    LET m == CHOOSE m \in 1..12 : DaysBefore(m) < n /\ n <= DaysBefore(m) + DaysInMonth(m)
    IN <<Year, m, n - DaysBefore(m)>>

\* datetime.weekday(): Monday = 0 ... Sunday = 6; 2026-01-01 is a Thursday
weekday(n) == (n + 2) % 7

RECURSIVE CountLoop_end_excluded(_, _)
\* a variant that stops before the end date
CountLoop_end_excluded(current, end) ==
    IF current >= end THEN 0
    ELSE (IF weekday(current) < 5 THEN 1 ELSE 0) + CountLoop_end_excluded(current + 1, end)

RECURSIVE CountLoop(_, _)
\* while current <= end: if current.weekday() < 5: weekdays += 1; current += 1 day
CountLoop(current, end) ==
    IF current > end THEN 0
    ELSE (IF weekday(current) < 5 THEN 1 ELSE 0) + CountLoop(current + 1, end)

count_weekdays(start_date, end_date) ==
    CountLoop(strptime(start_date), strptime(end_date))

-----------------------------------------------------------------------------
(* Strings the code inspects *)

\* ', '.join(names)
RECURSIVE Join(_)
Join(names) ==
    IF Len(names) <= 1 THEN names
    ELSE <<names[1], ", ">> \o Join(Tail(names))

\* the pieces of the model's strings that contain a comma
CommaPieces == {", "}

\* "," in airline
HasComma(airline) == \E i \in DOMAIN airline : airline[i] \in CommaPieces

RECURSIVE UniqueCarriers(_, _)
\* for seg in segments: carrier = seg...get('name', '');
\*     if carrier and carrier not in airlines: airlines.append(carrier)
UniqueCarriers(segments, airlines) ==
    IF segments = <<>> THEN airlines
    ELSE LET carrier == segments[1].carrier
         IN UniqueCarriers(Tail(segments),
                IF carrier # "" /\ carrier \notin Range(airlines)
                THEN Append(airlines, carrier) ELSE airlines)

(* An ISO-8601 duration "PTnHnM" is [H |-> <<n>> or <<>>, M |-> <<n>> or <<>>]: *)
(* what re.search(r'(\d+)H') and re.search(r'(\d+)M') find in it. The       *)
(* readable form "n hr n min" is [hr |-> .., min |-> ..] in the same way.   *)
NoDuration == [hr |-> <<>>, min |-> <<>>]

parse_iso_duration(iso) ==
    LET hours == IF iso.H # <<>> THEN iso.H[1] ELSE 0
        minutes == IF iso.M # <<>> THEN iso.M[1] ELSE 0
    IN IF iso.H = <<>> /\ iso.M = <<>> THEN NoDuration
       ELSE IF hours # 0 /\ minutes # 0 THEN [hr |-> <<hours>>, min |-> <<minutes>>]
       ELSE IF hours # 0 THEN [hr |-> <<hours>>, min |-> <<>>]
       ELSE IF minutes # 0 THEN [hr |-> <<>>, min |-> <<minutes>>]
       ELSE NoDuration

\* FlightLeg.duration_hours, in minutes: 60 * (hours + minutes / 60)
duration_hours(l) ==
    LET hours == IF l.duration.hr # <<>> THEN l.duration.hr[1] ELSE 0
        minutes == IF l.duration.min # <<>> THEN l.duration.min[1] ELSE 0
    IN 60 * hours + minutes

\* parse_duration_iso of the analyze phase, in minutes
parse_duration_iso(iso) ==
    LET hours == IF iso.H # <<>> THEN iso.H[1] ELSE 0
        minutes == IF iso.M # <<>> THEN iso.M[1] ELSE 0
    IN 60 * hours + minutes

\* parse_duration_str of the analyze phase, in minutes
parse_duration_str(d) ==
    LET hours == IF d.hr # <<>> THEN d.hr[1] ELSE 0
        minutes == IF d.min # <<>> THEN d.min[1] ELSE 0
    IN 60 * hours + minutes

(* A price string is the sequence of its characters. *)
Digits == <<"0", "1", "2", "3", "4", "5", "6", "7", "8", "9">>

DigitValue(c) == (CHOOSE k \in 1..10 : Digits[k] = c) - 1

RECURSIVE DecimalValue(_, _)
DecimalValue(chars, acc) ==
    IF chars = <<>> THEN acc
    ELSE DecimalValue(Tail(chars), 10 * acc + DigitValue(chars[1]))

RECURSIVE DropUS(_)
\* str.replace('US', '')
DropUS(chars) ==
    IF Len(chars) < 2 THEN chars
    ELSE IF chars[1] = "U" /\ chars[2] = "S" THEN DropUS(Tail(Tail(chars)))
    ELSE <<chars[1]>> \o DropUS(Tail(chars))

RECURSIVE Strip(_)
\* str.strip(): the blanks at both ends
Strip(chars) ==
    IF chars = <<>> THEN chars
    ELSE IF chars[1] = " " THEN Strip(Tail(chars))
    ELSE IF chars[Len(chars)] = " " THEN Strip(SubSeq(chars, 1, Len(chars) - 1))
    ELSE chars

\* float(cleaned) of a string of digits with an optional sign; anything else
\* of the model's strings raises ValueError
IsNumber(chars) ==
    LET body == IF chars # <<>> /\ chars[1] = "-" THEN Tail(chars) ELSE chars
    IN body # <<>> /\ \A i \in DOMAIN body : body[i] \in Range(Digits)

FloatOf(chars) ==
    IF chars[1] = "-" THEN 0 - DecimalValue(Tail(chars), 0)
    ELSE DecimalValue(chars, 0)

CleanPrice(price_str, withUS) ==
    LET noSigns == SelectSeq(price_str, LAMBDA c : c \notin {"$", ","})
    IN Strip(IF withUS THEN DropUS(noSigns) ELSE noSigns)

\* flight_optimizer.parse_price
parse_price(price_str) ==
    IF price_str = <<>> THEN Inf
    ELSE LET cleaned == CleanPrice(price_str, TRUE)
         IN IF IsNumber(cleaned) THEN FloatOf(cleaned) ELSE Inf

\* flight_sweep_analyze.parse_price_str
parse_price_str(price_str) ==
    IF price_str = <<>> THEN Inf
    ELSE LET cleaned == CleanPrice(price_str, FALSE)
         IN IF IsNumber(cleaned) THEN FloatOf(cleaned) ELSE Inf

-----------------------------------------------------------------------------
(* flight_optimizer.py: FlightLeg and Itinerary *)

FlightLeg(origin, destination, date, airline, duration, stops, price) ==
    [origin |-> origin, destination |-> destination, date |-> date,
     airline |-> airline, duration |-> duration, stops |-> stops, price |-> price]

\* a variant without the single-carrier rule
passes_constraints_no_carrier_rule(l) ==
    IF l.stops > MAX_STOPS THEN FALSE
    ELSE IF l.price = Inf THEN FALSE
    ELSE TRUE

\* a variant that also lets a leg with two stops through
passes_constraints_two_stops(l) ==
    IF l.stops > MAX_STOPS + 1 THEN FALSE
    ELSE IF HasComma(l.airline) THEN FALSE
    ELSE IF l.price = Inf THEN FALSE
    ELSE TRUE

\* FlightLeg.passes_constraints
passes_constraints(l) ==
    IF l.stops > MAX_STOPS THEN FALSE
    ELSE IF HasComma(l.airline) THEN FALSE
    ELSE IF l.price = Inf THEN FALSE
    ELSE TRUE

\* FlightLeg.score
score(l) ==
    l.price + (duration_hours(l) * COST_PER_HOUR) \div 60 + (l.stops * COST_PER_STOP)

Itinerary(legs, depart_date, return_date, europe_nights, india_nights, weekdays) ==
    [legs |-> legs, depart_date |-> depart_date, return_date |-> return_date,
     europe_nights |-> europe_nights, india_nights |-> india_nights,
     weekdays |-> weekdays, source |-> "google_flights"]

flight_total(it) == SumSeq([i \in DOMAIN it.legs |-> it.legs[i].price])

flight_score(it) == SumSeq([i \in DOMAIN it.legs |-> score(it.legs[i])])

childcare_cost(it) == it.weekdays * COST_PER_WEEKDAY

\* a variant that leaves the childcare cost out
total_score_flights_only(it) == flight_score(it)

\* Itinerary.total_score
total_score(it) == flight_score(it) + childcare_cost(it)

LegScores(legs) == [i \in DOMAIN legs |-> score(legs[i])] \o <<>>

TotalScores(its) == [i \in DOMAIN its |-> total_score(its[i])] \o <<>>

SortLegs_as_given(legs) == legs

\* legs.sort(key=lambda x: x.score())
SortLegs(legs) == SortByKeys(legs, LegScores(legs))

\* itineraries.sort(key=lambda x: x.total_score)
SortItineraries(its) == SortByKeys(its, TotalScores(its))

-----------------------------------------------------------------------------
(* What a provider can answer *)

Seg(carrier) == [carrier |-> carrier, departing_at |-> <<>>, arriving_at |-> <<>>]

\* a segment with its times, in minutes from midnight of the day of departure
SegAt(carrier, dep, arr) == [carrier |-> carrier, departing_at |-> <<dep>>, arriving_at |-> <<arr>>]

Iso(h, m) == [H |-> h, M |-> m]

Slice(segments, duration) == [segments |-> segments, duration |-> duration]

\* offer.get('total_amount'): a number as text, text that is no number, or no key
Amount(n) == [kind |-> "num", val |-> n]
AmountMissing == [kind |-> "missing", val |-> 0]
AmountGarbled == [kind |-> "garbled", val |-> 0]

Offer(slices, total_amount) == [slices |-> slices, total_amount |-> total_amount]

LH == "Lufthansa"
AI == "Air India"
\* the carrier of the offers of Duffel's test mode
DUFFEL_AIRWAYS == "Duffel Airways"
\* a carrier name with a denylisted fragment in capitals
TEST_AIR == "TEST AIR"

\* offers of a one-way search, as the provider may send them
OneWayOffers ==
    [ direct |-> Offer(<<Slice(<<Seg(LH)>>, Iso(<<10>>, <<>>))>>, Amount(500)),
      onestop |-> Offer(<<Slice(<<Seg(LH), Seg(LH)>>, Iso(<<10>>, <<>>))>>, Amount(300)),
      cheap |-> Offer(<<Slice(<<Seg(AI)>>, Iso(<<12>>, <<30>>))>>, Amount(400)),
      twostops |-> Offer(<<Slice(<<Seg(LH), Seg(LH), Seg(LH)>>, Iso(<<20>>, <<>>))>>, Amount(100)),
      twocarriers |-> Offer(<<Slice(<<Seg(LH), Seg(AI)>>, Iso(<<9>>, <<>>))>>, Amount(100)),
      unpriced |-> Offer(<<Slice(<<Seg(AI)>>, Iso(<<8>>, <<>>))>>, AmountMissing),
      garbled |-> Offer(<<Slice(<<Seg(AI)>>, Iso(<<8>>, <<>>))>>, AmountGarbled),
      nosegments |-> Offer(<<Slice(<<>>, Iso(<<8>>, <<>>))>>, Amount(100)),
      noslices |-> Offer(<<>>, Amount(100)),
      longlayover |-> Offer(<<Slice(<<SegAt(LH, 600, 1200), SegAt(LH, 1500, 2100)>>, Iso(<<25>>, <<>>))>>, Amount(200)),
      shortlayover |-> Offer(<<Slice(<<SegAt(LH, 600, 1200), SegAt(LH, 1320, 1920)>>, Iso(<<22>>, <<>>))>>, Amount(350)),
      testcarrier |-> Offer(<<Slice(<<Seg(DUFFEL_AIRWAYS)>>, Iso(<<9>>, <<>>))>>, Amount(50)),
      testcapitals |-> Offer(<<Slice(<<Seg(TEST_AIR)>>, Iso(<<9>>, <<>>))>>, Amount(60)) ]

\* a response: the call failed in transport (timeout, non-2xx, malformed JSON),
\* or it carries the offers of data['data']['offers']
Response(kind, offers) == [kind |-> kind, ok |-> TRUE, offers |-> offers]
TransportFailure == [kind |-> "transport_failure", ok |-> FALSE, offers |-> <<>>]

NominalOneWay ==
    Response("nominal", <<OneWayOffers.direct, OneWayOffers.twostops, OneWayOffers.onestop, OneWayOffers.twocarriers, OneWayOffers.cheap>>)

FaultyOneWay ==
    { TransportFailure,
      Response("no_offers", <<>>),
      Response("all_rejected", <<OneWayOffers.twostops, OneWayOffers.twocarriers>>),
      Response("garbled_amount", <<OneWayOffers.direct, OneWayOffers.garbled>>),
      Response("unpriced", <<OneWayOffers.noslices, OneWayOffers.nosegments, OneWayOffers.unpriced>>),
      Response("timed", <<OneWayOffers.direct, OneWayOffers.longlayover, OneWayOffers.testcarrier, OneWayOffers.shortlayover, OneWayOffers.testcapitals>>) }

RT(outSegs, outDur, retSegs, retDur, total) ==
    Offer(<<Slice(outSegs, outDur), Slice(retSegs, retDur)>>, Amount(total))

\* offers of a round-trip search
RoundTripOffers ==
    [ a |-> RT(<<Seg(LH)>>, Iso(<<10>>, <<>>), <<Seg(LH)>>, Iso(<<11>>, <<>>), 1000),
      b |-> RT(<<Seg(LH), Seg(LH)>>, Iso(<<9>>, <<>>), <<Seg(LH)>>, Iso(<<10>>, <<>>), 800),
      c |-> RT(<<Seg(LH), Seg(AI)>>, Iso(<<9>>, <<>>), <<Seg(AI)>>, Iso(<<12>>, <<30>>), 600),
      d |-> RT(<<Seg(AI)>>, Iso(<<12>>, <<>>), <<Seg(AI)>>, Iso(<<12>>, <<>>), 920),
      oneslice |-> Offer(<<Slice(<<Seg(LH)>>, Iso(<<10>>, <<>>))>>, Amount(100)),
      noreturn |-> RT(<<Seg(AI)>>, Iso(<<12>>, <<>>), <<>>, Iso(<<>>, <<>>), 700),
      garbled |-> Offer(<<Slice(<<Seg(LH)>>, Iso(<<10>>, <<>>)), Slice(<<Seg(LH)>>, Iso(<<10>>, <<>>))>>, AmountGarbled),
      longlayover |-> RT(<<SegAt(LH, 600, 1200), SegAt(LH, 1500, 2100)>>, Iso(<<25>>, <<>>), <<Seg(LH)>>, Iso(<<10>>, <<>>), 440),
      testcarrier |-> RT(<<Seg(DUFFEL_AIRWAYS)>>, Iso(<<9>>, <<>>), <<Seg(DUFFEL_AIRWAYS)>>, Iso(<<9>>, <<>>), 100) ]

NominalRoundTrip == Response("nominal", <<RoundTripOffers.a, RoundTripOffers.oneslice, RoundTripOffers.b, RoundTripOffers.c, RoundTripOffers.d>>)

FaultyRoundTrip ==
    { TransportFailure,
      Response("no_offers", <<>>),
      Response("no_return", <<RoundTripOffers.noreturn>>),
      Response("garbled_amount", <<RoundTripOffers.a, RoundTripOffers.garbled>>),
      Response("timed", <<RoundTripOffers.a, RoundTripOffers.longlayover, RoundTripOffers.testcarrier>>) }

\* the flights of a fast-flights result: name and price are text or None (<<>>),
\* stops is an int (<<n>>) or something else (<<>>)
FastFlight(name, price, duration, stops) ==
    [name |-> name, price |-> price, duration |-> duration, stops |-> stops]

\* flights of a fast-flights result
FastFlights ==
    [ direct |-> FastFlight(<<LH>>, <<"$", "4", "5", "0">>, [hr |-> <<11>>, min |-> <<>>], <<0>>),
      codeshare |-> FastFlight(<<LH, ", ", "United">>, <<"U", "S", "$", "1", ",", "2", "0", "0">>, [hr |-> <<9>>, min |-> <<30>>], <<1>>),
      unpriced |-> FastFlight(<<>>, <<>>, NoDuration, <<>>) ]

FastResponses ==
    { TransportFailure,
      Response("flights", <<FastFlights.codeshare, FastFlights.direct, FastFlights.unpriced>>) }

-----------------------------------------------------------------------------
(* flight_optimizer.py: the source adapters *)

\* what an adapter call did: raised tells whether an exception left the adapter
Returned(legs) == [raised |-> FALSE, legs |-> legs]
Raised == [raised |-> TRUE, legs |-> <<>>]

\* float(offer.get('total_amount', 0)); garbled text raises ValueError
AmountRaises(offer) == offer.total_amount.kind = "garbled"
AmountValue(offer) ==
    IF offer.total_amount.kind = "missing" THEN 0 ELSE offer.total_amount.val

\* price / 2, with inf / 2 = inf
Half(x) == IF x = Inf THEN Inf ELSE x \div 2

DuffelLeg(offer, from_airport, to_airport, date) ==
    LET slice_data == offer.slices[1]
        segments == slice_data.segments
    IN FlightLeg(from_airport, to_airport, date,
                 Join(UniqueCarriers(segments, <<>>)),
                 parse_iso_duration(slice_data.duration),
                 Len(segments) - 1,
                 AmountValue(offer))

RECURSIVE DuffelLegs(_, _, _, _, _)
\* the loop over data['data']['offers']: [raised, legs] with raised set when
\* the body raised, which ends the loop
DuffelLegs(offers, from_airport, to_airport, date, legs) ==
    IF offers = <<>> THEN [raised |-> FALSE, legs |-> legs]
    ELSE LET offer == offers[1]
         IN IF offer.slices = <<>> \/ offer.slices[1].segments = <<>>
            THEN DuffelLegs(Tail(offers), from_airport, to_airport, date, legs)
            ELSE IF AmountRaises(offer) THEN [raised |-> TRUE, legs |-> legs]
            ELSE LET l == DuffelLeg(offer, from_airport, to_airport, date)
                 IN DuffelLegs(Tail(offers), from_airport, to_airport, date,
                               IF passes_constraints(l) THEN Append(legs, l) ELSE legs)

\* the adapter without its try/except
search_flights_duffel_unguarded(from_airport, to_airport, date, resp) ==
    IF ~resp.ok THEN Raised
    ELSE LET r == DuffelLegs(resp.offers, from_airport, to_airport, date, <<>>)
         IN IF r.raised THEN Raised ELSE Returned(Take(SortLegs(r.legs), TopLegs))

\* search_flights_duffel
search_flights_duffel(from_airport, to_airport, date, resp) ==
    IF ~resp.ok THEN Returned(<<>>)
    ELSE LET r == DuffelLegs(resp.offers, from_airport, to_airport, date, <<>>)
         IN IF r.raised THEN Returned(<<>>)
            ELSE Returned(Take(SortLegs(r.legs), TopLegs))

FastLeg(flight, from_airport, to_airport, date) ==
    FlightLeg(from_airport, to_airport, date,
              IF flight.name # <<>> THEN flight.name ELSE <<"Unknown">>,
              flight.duration,
              IF flight.stops # <<>> THEN flight.stops[1] ELSE 0,
              parse_price(flight.price))

\* search_flights_fast
search_flights_fast(from_airport, to_airport, date, resp, available) ==
    IF ~available THEN Returned(<<>>)
    ELSE IF ~resp.ok THEN Returned(<<>>)
    ELSE LET all == [i \in DOMAIN resp.offers |->
                        FastLeg(resp.offers[i], from_airport, to_airport, date)]
         IN Returned(Take(SortLegs(SelectSeq(all, passes_constraints)), TopLegs))

RtLeg(offer, k, origin, destination, date) ==
    LET slice == offer.slices[k]
    IN FlightLeg(origin, destination, date,
                 Join(UniqueCarriers(slice.segments, <<>>)),
                 parse_iso_duration(slice.duration),
                 Len(slice.segments) - 1,
                 Half(AmountValue(offer)))

RECURSIVE RoundtripLegs_both_pass(_, _, _, _, _, _, _)
\* a variant that keeps the legs of an offer only when both of them pass
RoundtripLegs_both_pass(offers, from_airport, to_airport, outbound_date, return_date, out, ret) ==
    IF offers = <<>> THEN [raised |-> FALSE, out |-> out, ret |-> ret]
    ELSE LET offer == offers[1]
         IN IF Len(offer.slices) # 2
            THEN RoundtripLegs_both_pass(Tail(offers), from_airport, to_airport,
                                         outbound_date, return_date, out, ret)
            ELSE IF AmountRaises(offer) THEN [raised |-> TRUE, out |-> out, ret |-> ret]
            ELSE LET out_leg == RtLeg(offer, 1, from_airport, to_airport, outbound_date)
                     ret_leg == RtLeg(offer, 2, to_airport, from_airport, return_date)
                     both == /\ offer.slices[1].segments # <<>> /\ passes_constraints(out_leg)
                             /\ offer.slices[2].segments # <<>> /\ passes_constraints(ret_leg)
                 IN RoundtripLegs_both_pass(Tail(offers), from_airport, to_airport,
                                            outbound_date, return_date,
                                            IF both THEN Append(out, out_leg) ELSE out,
                                            IF both THEN Append(ret, ret_leg) ELSE ret)

RECURSIVE RoundtripLegs(_, _, _, _, _, _, _)
\* the loop of search_roundtrip_duffel: [raised, out, ret]
RoundtripLegs(offers, from_airport, to_airport, outbound_date, return_date, out, ret) ==
    IF offers = <<>> THEN [raised |-> FALSE, out |-> out, ret |-> ret]
    ELSE LET offer == offers[1]
         IN IF Len(offer.slices) # 2
            THEN RoundtripLegs(Tail(offers), from_airport, to_airport,
                               outbound_date, return_date, out, ret)
            ELSE IF AmountRaises(offer) THEN [raised |-> TRUE, out |-> out, ret |-> ret]
            ELSE LET out_leg == RtLeg(offer, 1, from_airport, to_airport, outbound_date)
                     ret_leg == RtLeg(offer, 2, to_airport, from_airport, return_date)
                     out2 == IF offer.slices[1].segments # <<>> /\ passes_constraints(out_leg)
                             THEN Append(out, out_leg) ELSE out
                     ret2 == IF offer.slices[2].segments # <<>> /\ passes_constraints(ret_leg)
                             THEN Append(ret, ret_leg) ELSE ret
                 IN RoundtripLegs(Tail(offers), from_airport, to_airport,
                                  outbound_date, return_date, out2, ret2)

\* search_roundtrip_duffel: legs is the pair <<outbound_legs, return_legs>>
search_roundtrip_duffel(from_airport, to_airport, outbound_date, return_date, resp) ==
    IF ~resp.ok THEN Returned(<<<<>>, <<>>>>)
    ELSE LET r == RoundtripLegs(resp.offers, from_airport, to_airport,
                                outbound_date, return_date, <<>>, <<>>)
         IN IF r.raised THEN Returned(<<<<>>, <<>>>>)
            ELSE Returned(<<Take(SortLegs(r.out), TopLegs), Take(SortLegs(r.ret), TopLegs)>>)

-----------------------------------------------------------------------------
(* flight_optimizer.py: search_flights and the two builders *)

\* search_flights: Duffel first, fast-flights when Duffel returned nothing.
\* calls lists the adapter calls made, each with what it returned.
search_flights(from_airport, to_airport, date, resp, fresp, available) ==
    LET d == search_flights_duffel(from_airport, to_airport, date, resp)
        dcall == [adapter |-> "search_flights_duffel", response |-> resp.kind,
                  raised |-> d.raised, legs |-> d.legs]
    IN IF d.raised THEN [raised |-> TRUE, legs |-> <<>>, calls |-> <<dcall>>]
       ELSE IF d.legs = <<>> /\ available
       THEN LET f == search_flights_fast(from_airport, to_airport, date, fresp, available)
            IN [raised |-> f.raised, legs |-> f.legs,
                calls |-> <<dcall, [adapter |-> "search_flights_fast",
                                    response |-> fresp.kind,
                                    raised |-> f.raised, legs |-> f.legs]>>]
       ELSE [raised |-> FALSE, legs |-> d.legs, calls |-> <<dcall>>]

\* main's departure_options: (depart_date, europe_nights_before_india, india_nights)
departure_options ==
    << [sea_depart |-> <<2026, 5, 2>>, europe_nights |-> 21, india_nights |-> 6],
       [sea_depart |-> <<2026, 5, 9>>, europe_nights |-> 21, india_nights |-> 6] >>

\* the dates search_trip_option derives
TripDates(sea_depart, europe_nights, india_nights) ==
    LET sea_depart_dt == strptime(sea_depart)
        europe_arrive_dt == sea_depart_dt + 1
        europe_depart_dt == europe_arrive_dt + europe_nights
        india_depart_dt == europe_depart_dt + india_nights
        india_depart == strftime(india_depart_dt)
    IN [europe_depart |-> strftime(europe_depart_dt),
        india_depart |-> india_depart,
        sea_return |-> india_depart,
        weekdays |-> count_weekdays(sea_depart, india_depart)]

\* the dates search_round_trip_strategy derives
RoundTripDates(sea_depart, europe_nights_before_india, india_nights) ==
    LET sea_depart_dt == strptime(sea_depart)
        europe_arrive_dt == sea_depart_dt + 1
        mxp_to_hyd_dt == europe_arrive_dt + europe_nights_before_india
        hyd_to_mxp_dt == mxp_to_hyd_dt + india_nights
        mxp_to_sea_dt == hyd_to_mxp_dt + 1
        mxp_to_sea == strftime(mxp_to_sea_dt)
    IN [mxp_to_hyd |-> strftime(mxp_to_hyd_dt),
        hyd_to_mxp |-> strftime(hyd_to_mxp_dt),
        mxp_to_sea |-> mxp_to_sea,
        total_europe_nights |-> europe_nights_before_india + 1,
        weekdays |-> count_weekdays(sea_depart, mxp_to_sea)]

\* a guard that looks at the outbound list only
incomplete_first_only(lists) == lists[1] = <<>>

\* if not sea_mxp_options or not mxp_hyd_options or not hyd_sea_options
incomplete_trip_option(lists) == \E i \in DOMAIN lists : lists[i] = <<>>

\* if not sea_mxp_out or not mxp_sea_back or not mxp_hyd_out or not hyd_mxp_back
incomplete_round_trip(lists) == \E i \in DOMAIN lists : lists[i] = <<>>

SequentialItineraries_all_legs(l1, l2, l3, sea_depart, sea_return, europe_nights, india_nights, weekdays) ==
    LET a == Len(l1)
        b == Len(l2)
        c == Len(l3)
    IN [n \in 1..(a * b * c) |->
            Itinerary(<<l1[((n - 1) \div (b * c)) + 1],
                        l2[(((n - 1) \div c) % b) + 1],
                        l3[((n - 1) % c) + 1]>>,
                      sea_depart, sea_return, europe_nights, india_nights, weekdays)]

\* for leg1 in sea_mxp_options[:5]: for leg2 in mxp_hyd_options[:5]:
\*     for leg3 in hyd_sea_options[:5]: itineraries.append(Itinerary(...))
SequentialItineraries(l1, l2, l3, sea_depart, sea_return, europe_nights, india_nights, weekdays) ==
    LET a == Min2(TopCombine, Len(l1))
        b == Min2(TopCombine, Len(l2))
        c == Min2(TopCombine, Len(l3))
    IN [n \in 1..(a * b * c) |->
            Itinerary(<<l1[((n - 1) \div (b * c)) + 1],
                        l2[(((n - 1) \div c) % b) + 1],
                        l3[((n - 1) % c) + 1]>>,
                      sea_depart, sea_return, europe_nights, india_nights, weekdays)]

search_trip_option_top_five(lists, sea_depart, europe_nights, india_nights) ==
    LET d == TripDates(sea_depart, europe_nights, india_nights)
    IN IF incomplete_trip_option(lists) THEN [raised |-> FALSE, emitted |-> <<>>, its |-> <<>>]
       ELSE LET itineraries == SequentialItineraries(lists[1], lists[2], lists[3],
                                   sea_depart, d.sea_return, europe_nights,
                                   india_nights, d.weekdays)
            IN [raised |-> FALSE, emitted |-> itineraries,
                its |-> Take(SortItineraries(itineraries), 5)]

\* the rest of search_trip_option once the three lists are there: [raised, its]
search_trip_option(lists, sea_depart, europe_nights, india_nights) ==
    LET d == TripDates(sea_depart, europe_nights, india_nights)
    IN IF incomplete_trip_option(lists) THEN [raised |-> FALSE, emitted |-> <<>>, its |-> <<>>]
       ELSE LET itineraries == SequentialItineraries(lists[1], lists[2], lists[3],
                                   sea_depart, d.sea_return, europe_nights,
                                   india_nights, d.weekdays)
            IN [raised |-> FALSE, emitted |-> itineraries,
                its |-> Take(SortItineraries(itineraries), TopPerPoint)]

PairedItineraries_zipped(lists, sea_depart, return_date, europe_nights, india_nights, weekdays) ==
    LET out1 == lists[1]
        back1 == lists[2]
        out2 == lists[3]
        back2 == lists[4]
        a == Min2(TopCombine, Min2(Len(out1), Len(back1)))
        b == Min2(TopCombine, Min2(Len(out2), Len(back2)))
    IN [n \in 1..(a * b) |->
            LET i == ((n - 1) \div b) + 1
                j == ((n - 1) % b) + 1
            IN Itinerary(<<out1[i], out2[j], back2[j], back1[i]>>,
                         sea_depart, return_date, europe_nights, india_nights, weekdays)]

\* for i, leg1 in enumerate(sea_mxp_out[:5]):
\*     leg4 = mxp_sea_back[min(i, len(mxp_sea_back)-1)]
\*     for j, leg2 in enumerate(mxp_hyd_out[:5]):
\*         leg3 = hyd_mxp_back[min(j, len(hyd_mxp_back)-1)]
\* lists = <<sea_mxp_out, mxp_sea_back, mxp_hyd_out, hyd_mxp_back>>
PairedItineraries(lists, sea_depart, return_date, europe_nights, india_nights, weekdays) ==
    LET out1 == lists[1]
        back1 == lists[2]
        out2 == lists[3]
        back2 == lists[4]
        a == Min2(TopCombine, Len(out1))
        b == Min2(TopCombine, Len(out2))
    IN [n \in 1..(a * b) |->
            LET i == ((n - 1) \div b) + 1
                j == ((n - 1) % b) + 1
            IN Itinerary(<<out1[i], out2[j], back2[Min2(j, Len(back2))],
                           back1[Min2(i, Len(back1))]>>,
                         sea_depart, return_date, europe_nights, india_nights, weekdays)]

\* indexing an empty return list raises IndexError
PairingRaises(lists) ==
    \/ lists[1] # <<>> /\ lists[2] = <<>>
    \/ lists[1] # <<>> /\ lists[3] # <<>> /\ lists[4] = <<>>

\* the rest of search_round_trip_strategy once the four lists are there
search_round_trip_strategy(lists, sea_depart, europe_nights_before_india, india_nights) ==
    LET d == RoundTripDates(sea_depart, europe_nights_before_india, india_nights)
    IN IF incomplete_round_trip(lists) THEN [raised |-> FALSE, emitted |-> <<>>, its |-> <<>>]
       ELSE IF PairingRaises(lists) THEN [raised |-> TRUE, emitted |-> <<>>, its |-> <<>>]
       ELSE LET itineraries == PairedItineraries(lists, sea_depart, d.mxp_to_sea,
                                   d.total_europe_nights, india_nights, d.weekdays)
            IN [raised |-> FALSE, emitted |-> itineraries,
                its |-> Take(SortItineraries(itineraries), TopPerPoint)]

\* for it in itins: it.source = tag
Tagged(its, tag) == [i \in DOMAIN its |-> [its[i] EXCEPT !.source = tag]]

\* the record main writes to flight_results_spring2026.json for one itinerary
JsonRecord(it) ==
    [strategy |-> it.source, total_score |-> total_score(it),
     flight_total |-> flight_total(it), childcare_cost |-> childcare_cost(it),
     depart_date |-> it.depart_date, return_date |-> it.return_date,
     europe_nights |-> it.europe_nights, india_nights |-> it.india_nights,
     weekdays |-> it.weekdays,
     legs |-> [i \in DOMAIN it.legs |->
                  [origin |-> it.legs[i].origin, destination |-> it.legs[i].destination,
                   date |-> it.legs[i].date, airline |-> it.legs[i].airline,
                   duration |-> it.legs[i].duration, stops |-> it.legs[i].stops,
                   price |-> it.legs[i].price, score |-> score(it.legs[i])]]]

JsonRecords(its) == [i \in DOMAIN its |-> JsonRecord(its[i])] \o <<>>

\* a variant that writes the whole ranking
SavedItineraries_untruncated(its) == SortItineraries(its)

\* sorted_its[:30]
SavedItineraries(its) == Take(SortItineraries(its), TopSaved)

-----------------------------------------------------------------------------
(* flight_sweep_collect.py *)

\* RATE_LIMIT_DELAY = 0.5 seconds, in milliseconds
RATE_LIMIT_DELAY == 500
\* time.sleep(0.2) after a Google Flights search, in milliseconds
GOOGLE_DELAY == 200

collect_DEPARTURE_DATES ==
    << <<2026, 4, 24>>, <<2026, 4, 25>>, <<2026, 5, 1>>, <<2026, 5, 2>>, <<2026, 5, 8>> >>
collect_EUROPE_NIGHTS_OPTIONS == <<21, 22, 23>>
collect_INDIA_NIGHTS_OPTIONS == <<5, 6, 7>>

\* get_cache_path: the file name, piece by piece
get_cache_path(source, origin, dest, date, return_date) ==
    IF return_date # <<>>
    THEN <<source, origin, dest, date, "rt", return_date[1]>>
    ELSE <<source, origin, dest, date>>

\* a variant that never finds the file
is_cached_never(source, origin, dest, date, return_date) == FALSE

\* is_cached
is_cached(source, origin, dest, date, return_date) ==
    get_cache_path(source, origin, dest, date, return_date) \in DOMAIN cache

\* the file save_cache writes (fetched_at, the time of writing, left out)
CacheFile(source, origin, dest, date, data, return_date) ==
    [source |-> source, origin |-> origin, destination |-> dest, date |-> date,
     return_date |-> return_date, data |-> data]

\* a variant that writes no file for a search that failed
save_cache_unless_error(source, origin, dest, date, data, return_date) ==
    LET path == get_cache_path(source, origin, dest, date, return_date)
    IN IF data.error # <<>> THEN cache
       ELSE [f \in DOMAIN cache \cup {path} |->
               IF f = path THEN CacheFile(source, origin, dest, date, data, return_date)
               ELSE cache[f]]

\* save_cache: open(path, 'w') creates or overwrites the file
save_cache(source, origin, dest, date, data, return_date) ==
    LET path == get_cache_path(source, origin, dest, date, return_date)
    IN [f \in DOMAIN cache \cup {path} |->
           IF f = path THEN CacheFile(source, origin, dest, date, data, return_date)
           ELSE cache[f]]

\* search_google_oneway: [raised, data]
search_google_oneway(origin, dest, date, resp, available) ==
    IF ~available THEN [raised |-> FALSE, data |-> [error |-> <<"fast-flights not available">>, flights |-> <<>>]]
    ELSE IF ~resp.ok THEN [raised |-> FALSE, data |-> [error |-> <<resp.kind>>, flights |-> <<>>]]
    ELSE [raised |-> FALSE,
          data |-> [error |-> <<>>,
                    flights |-> [i \in DOMAIN resp.offers |->
                        [airline |-> IF resp.offers[i].name # <<>> THEN resp.offers[i].name
                                     ELSE <<"Unknown">>,
                         price |-> resp.offers[i].price,
                         duration |-> resp.offers[i].duration,
                         stops |-> IF resp.offers[i].stops # <<>> THEN resp.offers[i].stops[1]
                                   ELSE 0]]]]

RECURSIVE Layovers(_)
\* for i in range(len(segments) - 1): the gap between segment i's arrival and
\* segment i+1's departure, when both times are there
Layovers(segments) ==
    IF Len(segments) < 2 THEN <<>>
    ELSE LET arr_time == segments[1].arriving_at
             dep_time == segments[2].departing_at
         IN (IF arr_time # <<>> /\ dep_time # <<>>
             THEN <<[duration_minutes |-> dep_time[1] - arr_time[1]]>>
             ELSE <<>>) \o Layovers(Tail(segments))

\* what collect keeps of one slice
SliceInfo(slice_data) ==
    [airline |-> Join(UniqueCarriers(slice_data.segments, <<>>)),
     duration_iso |-> slice_data.duration,
     stops |-> Len(slice_data.segments) - 1,
     layovers |-> Layovers(slice_data.segments)]

RECURSIVE ExtractOneway(_, _)
\* the loop of search_duffel_oneway: [raised, offers]
ExtractOneway(offers, kept) ==
    IF offers = <<>> THEN [raised |-> FALSE, offers |-> kept]
    ELSE LET offer == offers[1]
         IN IF offer.slices = <<>> THEN ExtractOneway(Tail(offers), kept)
            ELSE IF AmountRaises(offer) THEN [raised |-> TRUE, offers |-> kept]
            ELSE LET info == SliceInfo(offer.slices[1])
                 IN ExtractOneway(Tail(offers),
                        Append(kept, [airline |-> info.airline,
                                      price |-> <<AmountValue(offer)>>,
                                      duration_iso |-> info.duration_iso,
                                      stops |-> info.stops,
                                      layovers |-> info.layovers]))

\* search_duffel_oneway
search_duffel_oneway(origin, dest, date, resp) ==
    IF ~resp.ok THEN [raised |-> FALSE, data |-> [error |-> <<resp.kind>>, offers |-> <<>>]]
    ELSE LET r == ExtractOneway(resp.offers, <<>>)
         IN IF r.raised
            THEN [raised |-> FALSE, data |-> [error |-> <<"ValueError">>, offers |-> <<>>]]
            ELSE [raised |-> FALSE, data |-> [error |-> <<>>, offers |-> r.offers]]

RECURSIVE ExtractRoundtrip(_, _)
\* the loop of search_duffel_roundtrip: [raised, offers]
ExtractRoundtrip(offers, kept) ==
    IF offers = <<>> THEN [raised |-> FALSE, offers |-> kept]
    ELSE LET offer == offers[1]
         IN IF Len(offer.slices) # 2 THEN ExtractRoundtrip(Tail(offers), kept)
            ELSE IF AmountRaises(offer) THEN [raised |-> TRUE, offers |-> kept]
            ELSE ExtractRoundtrip(Tail(offers),
                     Append(kept, [total_price |-> <<AmountValue(offer)>>,
                                   outbound |-> <<SliceInfo(offer.slices[1])>>,
                                   return |-> <<SliceInfo(offer.slices[2])>>]))

\* search_duffel_roundtrip
search_duffel_roundtrip(origin, dest, outbound_date, return_date, resp) ==
    IF ~resp.ok THEN [raised |-> FALSE, data |-> [error |-> <<resp.kind>>, offers |-> <<>>]]
    ELSE LET r == ExtractRoundtrip(resp.offers, <<>>)
         IN IF r.raised
            THEN [raised |-> FALSE, data |-> [error |-> <<"ValueError">>, offers |-> <<>>]]
            ELSE [raised |-> FALSE, data |-> [error |-> <<>>, offers |-> r.offers]]

\* the leg dates calculate_all_dates derives for one grid point
CollectLegDates(depart_sea, europe_nights, india_nights) ==
    LET depart_dt == strptime(depart_sea)
        arrive_europe == depart_dt + 1
        leg2_date == strftime(arrive_europe + europe_nights)
        leg3_date == strftime(strptime(leg2_date) + india_nights)
        return_date == strftime(strptime(leg3_date) + 1)
    IN [leg1_date |-> depart_sea, leg2_date |-> leg2_date,
        leg3_date |-> leg3_date, return_date |-> return_date]

CollectGrid ==
    { <<d, e, i>> : d \in DOMAIN collect_DEPARTURE_DATES,
                    e \in DOMAIN collect_EUROPE_NIGHTS_OPTIONS,
                    i \in DOMAIN collect_INDIA_NIGHTS_OPTIONS }

CollectDatesOf(g) ==
    CollectLegDates(collect_DEPARTURE_DATES[g[1]], collect_EUROPE_NIGHTS_OPTIONS[g[2]],
                    collect_INDIA_NIGHTS_OPTIONS[g[3]])

\* calculate_all_dates
calculate_all_dates ==
    [one_way |->
        UNION { { <<"SEA", "MXP", CollectDatesOf(g).leg1_date>>,
                  <<"MXP", "HYD", CollectDatesOf(g).leg2_date>>,
                  <<"HYD", "SEA", CollectDatesOf(g).leg3_date>> } : g \in CollectGrid },
     round_trip |->
        UNION { { <<"SEA", "MXP", CollectDatesOf(g).leg1_date, CollectDatesOf(g).return_date>>,
                  <<"MXP", "HYD", CollectDatesOf(g).leg2_date, CollectDatesOf(g).leg3_date>> }
                : g \in CollectGrid }]

\* the order of sorted() on these tuples: airport codes alphabetically, then the
\* date strings, which order as their day numbers do
AirportRank(code) == CASE code = "HYD" -> 1 [] code = "MXP" -> 2 [] OTHER -> 3

KeyRank(k) ==
    ((AirportRank(k[1]) * 4 + AirportRank(k[2])) * 400 + strptime(k[3])) * 400
        + (IF Len(k) > 3 THEN strptime(k[4]) ELSE 0)

RECURSIVE Sorted(_)
Sorted(keys) ==
    IF keys = {} THEN <<>>
    ELSE LET first == CHOOSE k \in keys : \A other \in keys : KeyRank(k) <= KeyRank(other)
         IN <<first>> \o Sorted(keys \ {first})

RECURSIVE OneWayTasks(_)
\* per one-way search: Google Flights, then Duffel
OneWayTasks(keys) ==
    IF keys = <<>> THEN <<>>
    ELSE LET k == keys[1]
         IN << [source |-> "google", origin |-> k[1], dest |-> k[2], date |-> k[3],
                return_date |-> <<>>],
               [source |-> "duffel", origin |-> k[1], dest |-> k[2], date |-> k[3],
                return_date |-> <<>>] >> \o OneWayTasks(Tail(keys))

RECURSIVE RoundTripTasks(_)
RoundTripTasks(keys) ==
    IF keys = <<>> THEN <<>>
    ELSE LET k == keys[1]
         IN << [source |-> "duffel", origin |-> k[1], dest |-> k[2], date |-> k[3],
                return_date |-> <<k[4]>>] >> \o RoundTripTasks(Tail(keys))

\* the searches collect_all_data examines, in its order
CollectTasks ==
    OneWayTasks(Sorted(calculate_all_dates.one_way))
        \o RoundTripTasks(Sorted(calculate_all_dates.round_trip))

-----------------------------------------------------------------------------
(* flight_sweep_analyze.py *)

EXCLUDED_AIRLINE_PATTERNS == << <<"Duffel">>, <<"Test">> >>

analyze_DEPARTURE_DATES ==
    << <<2026, 4, 24>>, <<2026, 4, 25>>, <<2026, 5, 1>>, <<2026, 5, 2>>, <<2026, 5, 8>> >>
analyze_EUROPE_NIGHTS_OPTIONS == <<21, 22, 23>>
analyze_INDIA_NIGHTS_OPTIONS == <<5, 6, 7>>

\* str.lower() of the pieces a carrier string is made of, as characters
LowerChars(piece) ==
    CASE piece = "Lufthansa" -> <<"l", "u", "f", "t", "h", "a", "n", "s", "a">>
      [] piece = "Air India" -> <<"a", "i", "r", " ", "i", "n", "d", "i", "a">>
      [] piece = "United" -> <<"u", "n", "i", "t", "e", "d">>
      [] piece = "Unknown" -> <<"u", "n", "k", "n", "o", "w", "n">>
      [] piece = "Duffel Airways" ->
            <<"d", "u", "f", "f", "e", "l", " ", "a", "i", "r", "w", "a", "y", "s">>
      [] piece = "TEST AIR" -> <<"t", "e", "s", "t", " ", "a", "i", "r">>
      [] piece = "Duffel" -> <<"d", "u", "f", "f", "e", "l">>
      [] piece = "Test" -> <<"t", "e", "s", "t">>
      [] piece = ", " -> <<",", " ">>
      [] OTHER -> <<piece>>

RECURSIVE lower(_)
\* airline.lower(), pattern.lower()
lower(pieces) == IF pieces = <<>> THEN <<>> ELSE LowerChars(pieces[1]) \o lower(Tail(pieces))

\* pattern in text
Contains(text, pattern) ==
    \E off \in 0..(Len(text) - Len(pattern)) :
        SubSeq(text, off + 1, off + Len(pattern)) = pattern

Flight(source, airline, price, hours, stops, max_layover_hours, origin, destination, date) ==
    [source |-> source, airline |-> airline, price |-> price, duration_hours |-> hours,
     stops |-> stops, max_layover_hours |-> max_layover_hours,
     origin |-> origin, destination |-> destination, date |-> date]

\* a variant without the denylist of test carriers
Flight_passes_constraints_any_carrier(f) ==
    IF f.stops > MAX_STOPS THEN FALSE
    ELSE IF HasComma(f.airline) THEN FALSE
    ELSE IF f.max_layover_hours # <<>> /\ f.max_layover_hours[1] > MAX_LAYOVER_HOURS * 60
         THEN FALSE
    ELSE TRUE

\* Flight.passes_constraints; max_layover_hours is None (<<>>) or <<minutes>>
Flight_passes_constraints(f) ==
    IF f.stops > MAX_STOPS THEN FALSE
    ELSE IF HasComma(f.airline) THEN FALSE
    ELSE IF \E p \in DOMAIN EXCLUDED_AIRLINE_PATTERNS :
                Contains(lower(f.airline), lower(EXCLUDED_AIRLINE_PATTERNS[p]))
         THEN FALSE
    ELSE IF f.max_layover_hours # <<>> /\ f.max_layover_hours[1] > MAX_LAYOVER_HOURS * 60
         THEN FALSE
    ELSE TRUE

\* Flight.score
Flight_score(f) ==
    f.price + (f.duration_hours * COST_PER_HOUR) \div 60 + (f.stops * COST_PER_STOP)

Scenario(strategy, depart_date, europe_nights, india_nights, legs) ==
    [strategy |-> strategy, depart_date |-> depart_date, europe_nights |-> europe_nights,
     india_nights |-> india_nights, legs |-> legs]

\* Scenario.return_date
Scenario_return_date(sc) ==
    strftime(strptime(sc.depart_date) + 1 + sc.europe_nights + sc.india_nights)

\* Scenario.weekdays
Scenario_weekdays(sc) ==
    CountLoop(strptime(sc.depart_date), strptime(Scenario_return_date(sc)))

Scenario_total_price(sc) == SumSeq([i \in DOMAIN sc.legs |-> sc.legs[i].price])

Scenario_childcare_cost(sc) == Scenario_weekdays(sc) * COST_PER_WEEKDAY

\* Scenario.total_score
Scenario_total_score(sc) ==
    SumSeq([i \in DOMAIN sc.legs |-> Flight_score(sc.legs[i])]) + Scenario_childcare_cost(sc)

\* a variant that names the file of a round-trip search without its return date
cache_filename_one_way(source, origin, dest, date, return_date) ==
    <<source, origin, dest, date>>

\* load_cached_data's filename, piece by piece
cache_filename(source, origin, dest, date, return_date) ==
    IF return_date # <<>>
    THEN <<source, origin, dest, date, "rt", return_date[1]>>
    ELSE <<source, origin, dest, date>>

\* load_cached_data: None (<<>>) when there is no such file, else <<the file>>
load_cached_data(source, origin, dest, date, return_date) ==
    LET filename == cache_filename(source, origin, dest, date, return_date)
    IN IF filename \notin DOMAIN cache THEN <<>> ELSE <<cache[filename]>>

\* the files get_flights_for_route asks load_cached_data for
route_lookups(origin, dest, date) ==
    << cache_filename("google", origin, dest, date, <<>>),
       cache_filename("duffel", origin, dest, date, <<>>) >>

\* the file get_roundtrip_flights asks load_cached_data for
roundtrip_lookups(origin, dest, outbound_date, return_date) ==
    << cache_filename("duffel", origin, dest, outbound_date, <<return_date>>) >>

RECURSIVE MaxMinutes(_)
MaxMinutes(layovers) ==
    IF Len(layovers) = 1 THEN layovers[1].duration_minutes
    ELSE LET m == MaxMinutes(Tail(layovers))
         IN IF layovers[1].duration_minutes > m THEN layovers[1].duration_minutes ELSE m

\* max(l.get('duration_minutes', 0) for l in layovers) / 60, or None
MaxLayover(layovers) == IF layovers = <<>> THEN <<>> ELSE <<MaxMinutes(layovers)>>

Prices(flights) == [i \in DOMAIN flights |-> flights[i].price] \o <<>>

\* flights.sort(key=lambda f: f.price)
SortByPrice(flights) == SortByKeys(flights, Prices(flights))

GoogleFlight(f, origin, dest, date) ==
    Flight("google", f.airline, parse_price_str(f.price), parse_duration_str(f.duration),
           f.stops, <<>>, origin, dest, date)

DuffelFlight(offer, origin, dest, date) ==
    Flight("duffel", offer.airline, offer.price[1], parse_duration_iso(offer.duration_iso),
           offer.stops, MaxLayover(offer.layovers), origin, dest, date)

Accepted(f) == Flight_passes_constraints(f) /\ f.price < Inf

\* get_flights_for_route
get_flights_for_route(origin, dest, date) ==
    LET google_data == load_cached_data("google", origin, dest, date, <<>>)
        duffel_data == load_cached_data("duffel", origin, dest, date, <<>>)
        google == IF google_data = <<>> THEN <<>>
                  ELSE LET fs == google_data[1].data.flights
                       IN SelectSeq([i \in DOMAIN fs |-> GoogleFlight(fs[i], origin, dest, date)],
                                    Accepted)
        duffel == IF duffel_data = <<>> THEN <<>>
                  ELSE LET os == duffel_data[1].data.offers
                       IN SelectSeq([i \in DOMAIN os |-> DuffelFlight(os[i], origin, dest, date)],
                                    Accepted)
    IN SortByPrice(google \o duffel)

RoundtripFlight(offer, info, origin, dest, date) ==
    Flight("duffel_rt", info.airline, Half(offer.total_price[1]),
           parse_duration_iso(info.duration_iso), info.stops, MaxLayover(info.layovers),
           origin, dest, date)

AcceptedRoundtrip(f) == Flight_passes_constraints(f) /\ f.price > 0

\* get_roundtrip_flights: the pair <<outbound_flights, return_flights>>
get_roundtrip_flights(origin, dest, outbound_date, return_date) ==
    LET duffel_data == load_cached_data("duffel", origin, dest, outbound_date, <<return_date>>)
    IN IF duffel_data = <<>> THEN << <<>>, <<>> >>
       ELSE LET os == duffel_data[1].data.offers
                out == [i \in DOMAIN os |->
                           RoundtripFlight(os[i], os[i].outbound[1], origin, dest, outbound_date)]
                ret == [i \in DOMAIN os |->
                           RoundtripFlight(os[i], os[i].return[1], dest, origin, return_date)]
            IN << SortByPrice(SelectSeq(out, AcceptedRoundtrip)),
                  SortByPrice(SelectSeq(ret, AcceptedRoundtrip)) >>

-----------------------------------------------------------------------------
(* The provider's answers: the nominal response, or, at most MaxFaults times *)
(* in a run, another one.                                                   *)

\* the value of faults in a run during which the providers are unreachable
Outage == MaxFaults + 1

Choices(nominal, faulty) ==
    IF faults = Outage THEN {TransportFailure}
    ELSE {nominal} \cup (IF faults < MaxFaults THEN faulty ELSE {})

FaultsAfter(resp) == IF faults = Outage \/ resp.kind = "nominal" THEN faults ELSE faults + 1

-----------------------------------------------------------------------------
(* The pace of the calls to Duffel: since is the time slept since the last  *)
(* call (<<>> before the first call), gap the time slept between the last   *)
(* call and the one before it (<<>> while there were not two calls).        *)

NeverCalled == [since |-> <<>>, gap |-> <<>>]

\* requests.post(...) to Duffel
DuffelCalled(p) == [since |-> <<0>>, gap |-> p.since]

\* a variant of the delay that does not wait
Slept_no_delay(p, ms) == p

\* time.sleep(ms / 1000)
Slept(p, ms) ==
    [since |-> IF p.since = <<>> THEN <<>> ELSE <<p.since[1] + ms>>, gap |-> p.gap]

-----------------------------------------------------------------------------
(* flight_optimizer.py: main *)

ToolsIdle ==
    /\ args = <<>>
    /\ session = <<>>
    /\ returns = <<>>
    /\ sound = <<>>
    /\ frames = <<>>
    /\ ratio = 0
    /\ deduped = <<>>

OtherProgramsIdle ==
    /\ ToolsIdle
    /\ cache = <<>>
    /\ todo = <<>>
    /\ pending = <<>>
    /\ gp = 1
    /\ scenarios = <<>>
    /\ leg = <<>>
    /\ verdict = <<>>

InitOptimizer ==
    /\ prog = "optimizer"
    /\ pc = "strategy_a"
    /\ fast_flights_available \in BOOLEAN
    /\ opt = 1
    /\ cands = <<>>
    /\ all_itineraries = <<>>
    /\ built = <<>>
    /\ itins = <<>>
    /\ runs = <<>>
    /\ printed = <<>>
    /\ console = <<>>
    /\ persisted = <<>>
    /\ faults \in {0, Outage}
    /\ lastFetch = <<>>
    /\ netCalls = 0 /\ pace = NeverCalled
    /\ OtherProgramsIdle

sweepVars == <<cache, todo, pending, gp, scenarios>>
legVars == <<leg, verdict>>
toolVars == <<args, session, returns, sound, frames, ratio, deduped>>

\* a console line: its text and the number it prints, if any
Line(text, n) == [text |-> text, n |-> n]

SkipLine_silent(incomplete, text) == <<>>

\* print("  -> Incomplete results, skipping ...") when the builder had an empty list
SkipLine(incomplete, text) == IF incomplete THEN <<Line(text, <<>>)>> ELSE <<>>

\* the request of the n-th leg search of search_trip_option
TripOptionRequest(o, n) ==
    LET d == TripDates(o.sea_depart, o.europe_nights + 1, o.india_nights)
    IN CASE n = 1 -> [from |-> "SEA", to |-> "MXP", date |-> o.sea_depart]
         [] n = 2 -> [from |-> "MXP", to |-> "HYD", date |-> d.europe_depart]
         [] OTHER -> [from |-> "HYD", to |-> "SEA", date |-> d.india_depart]

\* one search_flights call of search_trip_option
SearchFlights ==
    /\ prog = "optimizer" /\ pc = "strategy_a" /\ Len(cands) < 3
    /\ \E resp \in Choices(NominalOneWay, FaultyOneWay), fresp \in FastResponses :
          LET q == TripOptionRequest(departure_options[opt], Len(cands) + 1)
              r == search_flights(q.from, q.to, q.date, resp, fresp, fast_flights_available)
          IN /\ (Len(r.calls) = 1 => fresp = TransportFailure)
             /\ (faults = Outage => fresp = TransportFailure)
             /\ faults' = FaultsAfter(resp)
             /\ lastFetch' = r.calls
             /\ netCalls' = netCalls + Len(r.calls)
             /\ pace' = DuffelCalled(pace)
             /\ IF r.raised
                THEN pc' = "crashed_adapter" /\ cands' = cands
                ELSE pc' = pc /\ cands' = Append(cands, r.legs)
    /\ UNCHANGED <<prog, fast_flights_available, opt, all_itineraries, built, itins,
                   runs, printed, persisted>>
    /\ UNCHANGED sweepVars /\ UNCHANGED legVars /\ UNCHANGED toolVars
    /\ UNCHANGED console

\* the builder of search_trip_option and the body of main's first loop
BuildTripOption ==
    /\ prog = "optimizer" /\ pc = "strategy_a" /\ Len(cands) = 3
    /\ LET o == departure_options[opt]
           r == search_trip_option(cands, o.sea_depart, o.europe_nights + 1, o.india_nights)
           its == Tagged(r.its, "one_way_x3")
       IN /\ built' = Tagged(r.emitted, "one_way_x3")
          /\ itins' = its
          /\ all_itineraries' = all_itineraries \o its
          /\ runs' = Append(runs, [strategy |-> "one_way_x3", option |-> opt,
                                   sizes |-> Sizes(cands), returned |-> its,
                                   formed |-> TotalScores(r.emitted)])
    /\ console' = console \o SkipLine(incomplete_trip_option(cands),
                                      "Incomplete results, skipping this option")
    /\ cands' = <<>>
    /\ IF opt < Len(departure_options)
       THEN opt' = opt + 1 /\ pc' = pc
       ELSE opt' = 1 /\ pc' = "strategy_b"
    /\ UNCHANGED <<prog, fast_flights_available, printed, persisted, faults,
                   lastFetch, netCalls, pace>>
    /\ UNCHANGED sweepVars /\ UNCHANGED legVars /\ UNCHANGED toolVars

\* the request of the n-th round-trip search of search_round_trip_strategy
RoundTripRequest(o, n) ==
    LET d == RoundTripDates(o.sea_depart, o.europe_nights, o.india_nights)
    IN IF n = 1
       THEN [from |-> "SEA", to |-> "MXP", date |-> o.sea_depart, ret |-> d.mxp_to_sea]
       ELSE [from |-> "MXP", to |-> "HYD", date |-> d.mxp_to_hyd, ret |-> d.hyd_to_mxp]

\* one search_roundtrip_duffel call of search_round_trip_strategy
SearchRoundtrip ==
    /\ prog = "optimizer" /\ pc = "strategy_b" /\ Len(cands) < 4
    /\ \E resp \in Choices(NominalRoundTrip, FaultyRoundTrip) :
          LET q == RoundTripRequest(departure_options[opt], (Len(cands) \div 2) + 1)
              r == search_roundtrip_duffel(q.from, q.to, q.date, q.ret, resp)
          IN /\ faults' = FaultsAfter(resp)
             /\ lastFetch' = <<[adapter |-> "search_roundtrip_duffel", response |-> resp.kind,
                                raised |-> r.raised, legs |-> r.legs]>>
             /\ netCalls' = netCalls + 1
             /\ pace' = DuffelCalled(pace)
             /\ IF r.raised
                THEN pc' = "crashed_adapter" /\ cands' = cands
                ELSE pc' = pc /\ cands' = cands \o r.legs
    /\ UNCHANGED <<prog, fast_flights_available, opt, all_itineraries, built, itins,
                   runs, printed, persisted>>
    /\ UNCHANGED sweepVars /\ UNCHANGED legVars /\ UNCHANGED toolVars
    /\ UNCHANGED console

\* the builder of search_round_trip_strategy and the body of main's second loop
BuildRoundTrip ==
    /\ prog = "optimizer" /\ pc = "strategy_b" /\ Len(cands) = 4
    /\ LET o == departure_options[opt]
           r == search_round_trip_strategy(cands, o.sea_depart, o.europe_nights, o.india_nights)
           its == Tagged(r.its, "round_trip_x2")
       IN IF r.raised
          THEN /\ pc' = "crashed_builder"
               /\ UNCHANGED <<built, itins, all_itineraries, runs, cands, opt, console>>
          ELSE /\ console' = console \o SkipLine(incomplete_round_trip(cands),
                                                 "Incomplete results, skipping")
               /\ built' = Tagged(r.emitted, "round_trip_x2")
               /\ itins' = its
               /\ all_itineraries' = all_itineraries \o its
               /\ runs' = Append(runs, [strategy |-> "round_trip_x2", option |-> opt,
                                        sizes |-> Sizes(cands), returned |-> its,
                                        formed |-> TotalScores(r.emitted)])
               /\ cands' = <<>>
               /\ IF opt < Len(departure_options)
                  THEN opt' = opt + 1 /\ pc' = pc
                  ELSE opt' = 1 /\ pc' = "print_results"
    /\ UNCHANGED <<prog, fast_flights_available, printed, persisted, faults,
                   lastFetch, netCalls, pace>>
    /\ UNCHANGED sweepVars /\ UNCHANGED legVars /\ UNCHANGED toolVars

\* print_results(all_itineraries)
PrintResults ==
    /\ prog = "optimizer" /\ pc = "print_results"
    /\ printed' = IF all_itineraries = <<>>
                  THEN <<[kind |-> "No itineraries found!", items |-> <<>>]>>
                  ELSE <<[kind |-> "top", items |-> Take(SortItineraries(all_itineraries), TopPrinted)]>>
    /\ pc' = "save_results"
    /\ UNCHANGED <<prog, fast_flights_available, opt, cands, all_itineraries, built,
                   itins, runs, persisted, faults, lastFetch, netCalls, pace>>
    /\ UNCHANGED sweepVars /\ UNCHANGED legVars /\ UNCHANGED toolVars
    /\ UNCHANGED console

\* main's json.dump of sorted_its[:30]
SaveResults ==
    /\ prog = "optimizer" /\ pc = "save_results"
    /\ built' = all_itineraries
    /\ persisted' = <<JsonRecords(SavedItineraries(all_itineraries))>>
    /\ pc' = "done"
    /\ UNCHANGED <<prog, fast_flights_available, opt, cands, all_itineraries,
                   itins, runs, printed, faults, lastFetch, netCalls, pace>>
    /\ UNCHANGED sweepVars /\ UNCHANGED legVars /\ UNCHANGED toolVars
    /\ UNCHANGED console

optVars == <<opt, cands, all_itineraries, itins>>

-----------------------------------------------------------------------------
(* flight_sweep_collect.py: collect_all_data *)

\* files an earlier, interrupted run of collect_all_data left behind: those of
\* its first PriorTasks searches, all answered nominally
RECURSIVE PriorCache(_, _)
PriorCache(tasks, files) ==
    IF tasks = <<>> THEN files
    ELSE LET t == tasks[1]
             path == get_cache_path(t.source, t.origin, t.dest, t.date, t.return_date)
             data == IF t.source = "google"
                     THEN search_google_oneway(t.origin, t.dest, t.date,
                              Response("flights", <<FastFlights.codeshare, FastFlights.direct, FastFlights.unpriced>>),
                              TRUE).data
                     ELSE search_duffel_oneway(t.origin, t.dest, t.date, NominalOneWay).data
         IN PriorCache(Tail(tasks),
                [f \in DOMAIN files \cup {path} |->
                    IF f = path
                    THEN CacheFile(t.source, t.origin, t.dest, t.date, data, t.return_date)
                    ELSE files[f]])

\* a first run with fast-flights installed and nominal answers; a run resumed
\* without fast-flights, in which one answer may be faulty; a run during an
\* outage
InitSweep ==
    /\ prog = "sweep"
    /\ pc = "collect"
    /\ \/ fast_flights_available = TRUE /\ cache = <<>> /\ faults = MaxFaults
       \/ fast_flights_available = FALSE /\ faults = 0
            /\ cache = PriorCache(Take(CollectTasks, PriorTasks), <<>>)
       \/ fast_flights_available = FALSE /\ cache = <<>> /\ faults = Outage
    /\ opt = 1 /\ cands = <<>> /\ all_itineraries = <<>> /\ itins = <<>>
    /\ built = <<>> /\ runs = <<>> /\ printed = <<>> /\ persisted = <<>>
    /\ console = <<>>
    /\ lastFetch = <<>> /\ netCalls = 0 /\ pace = NeverCalled
    /\ todo = CollectTasks
    /\ pending = <<>>
    /\ gp = 1
    /\ scenarios = <<>>
    /\ leg = <<>> /\ verdict = <<>>
    /\ ToolsIdle

\* the searches of the grid point FaultyPoint
FaultyKeys ==
    LET d == CollectDatesOf(<<((FaultyPoint - 1) \div 9) + 1,
                              (((FaultyPoint - 1) \div 3) % 3) + 1,
                              ((FaultyPoint - 1) % 3) + 1>>)
    IN { <<"SEA", "MXP", d.leg1_date, <<>>>>, <<"MXP", "HYD", d.leg2_date, <<>>>>,
         <<"HYD", "SEA", d.leg3_date, <<>>>>,
         <<"SEA", "MXP", d.leg1_date, <<d.return_date>>>>,
         <<"MXP", "HYD", d.leg2_date, <<d.leg3_date>>>> }

\* the faults of the collect phase: they strike the Duffel searches
CollectFaultyOneWay ==
    { TransportFailure,
      Response("unpriced", <<OneWayOffers.noslices, OneWayOffers.nosegments, OneWayOffers.unpriced>>),
      Response("timed", <<OneWayOffers.direct, OneWayOffers.longlayover, OneWayOffers.testcarrier, OneWayOffers.shortlayover, OneWayOffers.testcapitals>>) }

CollectFaultyRoundTrip ==
    { TransportFailure,
      Response("no_return", <<RoundTripOffers.noreturn>>),
      Response("timed", <<RoundTripOffers.a, RoundTripOffers.longlayover, RoundTripOffers.testcarrier>>) }

\* the answers the provider may give to the search t: in a run that is not an
\* outage one search, among those of the grid point FaultyPoint, may get an
\* answer other than the nominal one
CollectChoices(t) ==
    LET nominal == IF t.source = "google"
                   THEN Response("nominal", <<FastFlights.codeshare, FastFlights.direct, FastFlights.unpriced>>)
                   ELSE IF t.return_date = <<>> THEN NominalOneWay ELSE NominalRoundTrip
        faulty == IF t.source = "google" THEN {}
                  ELSE IF t.return_date = <<>> THEN CollectFaultyOneWay
                  ELSE CollectFaultyRoundTrip
    IN IF faults = Outage /\ t.source # "google" THEN {TransportFailure}
       ELSE {nominal} \cup
               (IF faults = 0
                     /\ <<t.origin, t.dest, t.date, t.return_date>> \in FaultyKeys
                THEN faulty ELSE {})

\* the search function collect_all_data calls for the search t
CollectSearch(t, resp) ==
    IF t.source = "google"
    THEN search_google_oneway(t.origin, t.dest, t.date, resp, fast_flights_available)
    ELSE IF t.return_date = <<>>
    THEN search_duffel_oneway(t.origin, t.dest, t.date, resp)
    ELSE search_duffel_roundtrip(t.origin, t.dest, t.date, t.return_date[1], resp)

\* collect_all_data at work: its first run, and a run made again over the
\* cache directory the first left
CollectRuns == {"collect", "collect_again"}

\* is_cached(...) holds: "cached", on to the next search
CollectCached ==
    /\ prog = "sweep" /\ pc \in CollectRuns /\ todo # <<>> /\ pending = <<>>
    /\ LET t == todo[1]
       IN is_cached(t.source, t.origin, t.dest, t.date, t.return_date)
    /\ todo' = Tail(todo)
    /\ lastFetch' = <<>>
    /\ UNCHANGED <<prog, pc, fast_flights_available, built, runs, printed, persisted,
                   faults, netCalls, pace, cache, pending, gp, scenarios>>
    /\ UNCHANGED optVars /\ UNCHANGED legVars /\ UNCHANGED toolVars
    /\ UNCHANGED console

\* not is_cached(...): data = search_...(...)
CollectFetch ==
    /\ prog = "sweep" /\ pc \in CollectRuns /\ todo # <<>> /\ pending = <<>>
    /\ LET t == todo[1]
       IN /\ ~is_cached(t.source, t.origin, t.dest, t.date, t.return_date)
          /\ \E resp \in CollectChoices(t) :
                LET r == CollectSearch(t, resp)
                    called == ~(t.source = "google" /\ ~fast_flights_available)
                IN /\ (~called => resp.kind = "nominal")
                   /\ faults' = FaultsAfter(resp)
                   /\ netCalls' = netCalls + (IF called THEN 1 ELSE 0)
                   /\ pace' = IF t.source = "google" THEN pace ELSE DuffelCalled(pace)
                   /\ lastFetch' = <<[adapter |-> t.source, response |-> resp.kind,
                                      raised |-> r.raised,
                                      legs |-> IF t.source = "google" THEN r.data.flights
                                               ELSE r.data.offers]>>
                   /\ IF r.raised
                      THEN pc' = "crashed_adapter" /\ pending' = pending
                      ELSE pc' = pc /\ pending' = <<[task |-> t, data |-> r.data]>>
    /\ UNCHANGED <<prog, fast_flights_available, built, runs, printed, persisted,
                   cache, todo, gp, scenarios>>
    /\ UNCHANGED optVars /\ UNCHANGED legVars /\ UNCHANGED toolVars
    /\ UNCHANGED console

\* save_cache(...) of what was fetched, then the delay
CollectSave ==
    /\ prog = "sweep" /\ pc \in CollectRuns /\ pending # <<>>
    /\ LET t == pending[1].task
       IN cache' = save_cache(t.source, t.origin, t.dest, t.date, pending[1].data,
                              t.return_date)
    /\ pace' = Slept(pace, IF pending[1].task.source = "google"
                            THEN GOOGLE_DELAY ELSE RATE_LIMIT_DELAY)
    /\ pending' = <<>>
    /\ todo' = Tail(todo)
    /\ UNCHANGED <<prog, pc, fast_flights_available, built, runs, printed, persisted,
                   faults, lastFetch, netCalls, gp, scenarios>>
    /\ UNCHANGED optVars /\ UNCHANGED legVars /\ UNCHANGED toolVars
    /\ UNCHANGED console

-----------------------------------------------------------------------------
(* flight_sweep_analyze.py: build_scenarios and main *)

\* the n-th grid point of build_scenarios' three nested loops
GridPoint(n) ==
    [depart_date |-> analyze_DEPARTURE_DATES[((n - 1) \div 9) + 1],
     europe_nights |-> analyze_EUROPE_NIGHTS_OPTIONS[(((n - 1) \div 3) % 3) + 1],
     india_nights |-> analyze_INDIA_NIGHTS_OPTIONS[((n - 1) % 3) + 1]]

GridSize ==
    Len(analyze_DEPARTURE_DATES) * Len(analyze_EUROPE_NIGHTS_OPTIONS)
        * Len(analyze_INDIA_NIGHTS_OPTIONS)

\* a variant of the strategy A guard that looks at the first list only
scenario_a_first_only(leg1_flights, leg2_flights, leg3_flights) ==
    leg1_flights # <<>>

\* if leg1_flights and leg2_flights and leg3_flights
scenario_a_complete(leg1_flights, leg2_flights, leg3_flights) ==
    leg1_flights # <<>> /\ leg2_flights # <<>> /\ leg3_flights # <<>>

\* if rt1_out and rt1_ret and rt2_out and rt2_ret
scenario_b_complete(rt1_out, rt1_ret, rt2_out, rt2_ret) ==
    rt1_out # <<>> /\ rt1_ret # <<>> /\ rt2_out # <<>> /\ rt2_ret # <<>>

\* legs=[leg1_flights[0], ...]: of an empty list, [0] raises IndexError
First(flights) == IF flights = <<>> THEN <<>> ELSE <<flights[1]>>

\* the body of build_scenarios' innermost loop: what both strategies looked up
\* and which scenarios they appended
build_scenarios_body(g) ==
    LET depart_dt == strptime(g.depart_date)
        arrive_europe == depart_dt + 1
        leg2_date == strftime(arrive_europe + g.europe_nights)
        leg3_date == strftime(strptime(leg2_date) + g.india_nights)
        return_date == strftime(strptime(leg3_date) + 1)
        leg1_flights == get_flights_for_route("SEA", "MXP", g.depart_date)
        leg2_flights == get_flights_for_route("MXP", "HYD", leg2_date)
        leg3_flights == get_flights_for_route("HYD", "SEA", leg3_date)
        rt1 == get_roundtrip_flights("SEA", "MXP", g.depart_date, return_date)
        rt2 == get_roundtrip_flights("MXP", "HYD", leg2_date, leg3_date)
        a_lists == <<leg1_flights, leg2_flights, leg3_flights>>
        b_lists == <<rt1[1], rt1[2], rt2[1], rt2[2]>>
        a_on == scenario_a_complete(leg1_flights, leg2_flights, leg3_flights)
        b_on == scenario_b_complete(rt1[1], rt1[2], rt2[1], rt2[2])
        a_legs == First(leg1_flights) \o First(leg2_flights) \o First(leg3_flights)
        b_legs == First(rt1[1]) \o First(rt2[1]) \o First(rt2[2]) \o First(rt1[2])
    IN [raised |-> (a_on /\ Len(a_legs) < 3) \/ (b_on /\ Len(b_legs) < 4),
        a_lists |-> a_lists,
        b_lists |-> b_lists,
        a_lookups |-> route_lookups("SEA", "MXP", g.depart_date)
                         \o route_lookups("MXP", "HYD", leg2_date)
                         \o route_lookups("HYD", "SEA", leg3_date),
        b_lookups |-> roundtrip_lookups("SEA", "MXP", g.depart_date, return_date)
                         \o roundtrip_lookups("MXP", "HYD", leg2_date, leg3_date),
        a |-> IF a_on
              THEN <<Scenario("one_way_x3", g.depart_date, g.europe_nights,
                              g.india_nights, a_legs)>>
              ELSE <<>>,
        b |-> IF b_on
              THEN <<Scenario("round_trip_x2", g.depart_date, g.europe_nights,
                              g.india_nights, b_legs)>>
              ELSE <<>>]

\* collect_all_data has printed COLLECTION COMPLETE and is run again: the
\* grid is the same, the cache directory is as the first run left it
CollectAgain ==
    /\ prog = "sweep" /\ pc = "collect" /\ todo = <<>> /\ pending = <<>>
    /\ pc' = "collect_again"
    /\ todo' = CollectTasks
    /\ lastFetch' = <<>>
    /\ UNCHANGED <<prog, fast_flights_available, built, runs, printed, persisted,
                   faults, netCalls, pace, cache, pending, gp, scenarios>>
    /\ UNCHANGED optVars /\ UNCHANGED legVars /\ UNCHANGED toolVars
    /\ UNCHANGED console

\* main of the analyze phase starts: the cache directory is there
StartAnalyze ==
    /\ prog = "sweep" /\ pc \in CollectRuns /\ todo = <<>> /\ pending = <<>>
    /\ pc' = "build_scenarios"
    /\ lastFetch' = <<>>
    /\ UNCHANGED <<prog, fast_flights_available, built, runs, printed, persisted,
                   faults, netCalls, pace, cache, todo, pending, gp, scenarios>>
    /\ UNCHANGED optVars /\ UNCHANGED legVars /\ UNCHANGED toolVars
    /\ UNCHANGED console

\* one pass of build_scenarios' innermost loop
BuildScenarios ==
    /\ prog = "sweep" /\ pc = "build_scenarios"
    /\ LET r == build_scenarios_body(GridPoint(gp))
       IN IF r.raised
          THEN /\ pc' = "crashed_builder"
               /\ UNCHANGED <<scenarios, runs, built, gp>>
          ELSE /\ scenarios' = scenarios \o r.a \o r.b
               /\ built' = r.a \o r.b
               /\ runs' = runs \o
                      << [strategy |-> "one_way_x3", option |-> gp,
                          sizes |-> Sizes(r.a_lists), returned |-> r.a,
                          lists |-> r.a_lists, lookups |-> r.a_lookups],
                         [strategy |-> "round_trip_x2", option |-> gp,
                          sizes |-> Sizes(r.b_lists), returned |-> r.b,
                          lists |-> r.b_lists, lookups |-> r.b_lookups] >>
               /\ IF gp < GridSize
                  THEN gp' = gp + 1 /\ pc' = pc
                  ELSE gp' = gp /\ pc' = "report"
    /\ UNCHANGED <<prog, fast_flights_available, printed, persisted, faults,
                   lastFetch, netCalls, pace, cache, todo, pending>>
    /\ UNCHANGED optVars /\ UNCHANGED legVars /\ UNCHANGED toolVars
    /\ UNCHANGED console

ScenarioScores(scs) == [i \in DOMAIN scs |-> Scenario_total_score(scs[i])] \o <<>>

\* scenarios.sort(key=lambda s: s.total_score)
SortScenarios(scs) == SortByKeys(scs, ScenarioScores(scs))

\* one record of flight_sweep_results.json
ScenarioRecord(sc, rank) ==
    [rank |-> rank,
     strategy |-> sc.strategy,
     depart_date |-> sc.depart_date,
     return_date |-> Scenario_return_date(sc),
     europe_nights |-> sc.europe_nights,
     india_nights |-> sc.india_nights,
     weekdays |-> Scenario_weekdays(sc),
     total_price |-> Scenario_total_price(sc),
     childcare_cost |-> Scenario_childcare_cost(sc),
     total_score |-> Scenario_total_score(sc),
     legs |-> [i \in DOMAIN sc.legs |->
                  [origin |-> sc.legs[i].origin,
                   destination |-> sc.legs[i].destination,
                   date |-> sc.legs[i].date,
                   airline |-> sc.legs[i].airline,
                   price |-> sc.legs[i].price,
                   duration_hours |-> sc.legs[i].duration_hours,
                   stops |-> sc.legs[i].stops,
                   source |-> sc.legs[i].source]]]

\* for i, s in enumerate(scenarios, 1)
ScenarioRecords(scs) == [i \in DOMAIN scs |-> ScenarioRecord(scs[i], i)] \o <<>>

\* main after build_scenarios: nothing to report, or sort, print the top of
\* the ranking, and write the viewer and the results file
ReportScenarios ==
    /\ prog = "sweep" /\ pc = "report"
    /\ console' = Append(console, Line("Valid scenarios", <<Len(scenarios)>>))
    /\ IF scenarios = <<>>
       THEN /\ printed' = <<[kind |-> "No valid scenarios found", items |-> <<>>]>>
            /\ UNCHANGED <<scenarios, built, persisted>>
       ELSE LET ranked == SortScenarios(scenarios)
            IN /\ built' = scenarios
               /\ scenarios' = ranked
               /\ printed' = <<[kind |-> "top", items |-> Take(ranked, TopPrinted)]>>
               /\ persisted' = <<ScenarioRecords(ranked)>>
    /\ pc' = "done"
    /\ UNCHANGED <<prog, fast_flights_available, runs, faults, lastFetch, netCalls, pace,
                   cache, todo, pending, gp>>
    /\ UNCHANGED optVars /\ UNCHANGED legVars /\ UNCHANGED toolVars

-----------------------------------------------------------------------------
(* The two constraint filters, applied to one leg *)

InitLeg ==
    /\ prog = "leg"
    /\ pc = "check"
    /\ fast_flights_available = FALSE
    /\ opt = 1 /\ cands = <<>> /\ all_itineraries = <<>> /\ itins = <<>>
    /\ built = <<>> /\ runs = <<>> /\ printed = <<>> /\ persisted = <<>>
    /\ console = <<>>
    /\ faults = 0 /\ lastFetch = <<>> /\ netCalls = 0 /\ pace = NeverCalled
    /\ cache = <<>> /\ todo = <<>> /\ pending = <<>> /\ gp = 1 /\ scenarios = <<>>
    /\ leg \in [stops : 0..MaxStopsDrawn,
                airline : {<<>>, <<LH>>, <<LH, ", ", AI>>, <<DUFFEL_AIRWAYS>>},
                price : {0 - 5, 0, 500, Inf},
                layover : {<<>>, <<MAX_LAYOVER_HOURS * 60>>, <<MAX_LAYOVER_HOURS * 60 + 1>>}]
    /\ verdict = <<>>
    /\ ToolsIdle

\* FlightLeg(...).passes_constraints()
CheckFlightLeg ==
    /\ prog = "leg" /\ pc = "check"
    /\ verdict' = <<[of |-> "FlightLeg",
                     passes |-> passes_constraints(
                         FlightLeg("SEA", "MXP", <<2026, 5, 2>>, leg.airline,
                                   [hr |-> <<10>>, min |-> <<>>], leg.stops, leg.price))]>>
    /\ pc' = "done"
    /\ UNCHANGED <<prog, fast_flights_available, built, runs, printed, persisted,
                   faults, lastFetch, netCalls, pace, leg>>
    /\ UNCHANGED optVars /\ UNCHANGED sweepVars /\ UNCHANGED toolVars
    /\ UNCHANGED console

\* Flight(...).passes_constraints()
CheckFlight ==
    /\ prog = "leg" /\ pc = "check"
    /\ verdict' = <<[of |-> "Flight",
                     passes |-> Flight_passes_constraints(
                         Flight("duffel", leg.airline, leg.price, 600, leg.stops,
                                leg.layover, "SEA", "MXP", <<2026, 5, 2>>))]>>
    /\ pc' = "done"
    /\ UNCHANGED <<prog, fast_flights_available, built, runs, printed, persisted,
                   faults, lastFetch, netCalls, pace, leg>>
    /\ UNCHANGED optVars /\ UNCHANGED sweepVars /\ UNCHANGED toolVars
    /\ UNCHANGED console

-----------------------------------------------------------------------------
(* flight_optimizer.py: search_trip_option called with given stay durations *)

\* the stay durations a caller may pass: none of the code's functions restricts
\* them
NightsDrawn == {0 - 1, 0, 6}

\* the numbers of offers of the three routes of a busy day: fewer than the
\* builder combines, as many, one more, and one more than an adapter returns
OffersDrawn ==
    { <<2, TopCombine, TopCombine + 1>>,
      <<TopCombine, TopCombine + 1, TopCombine>>,
      <<TopCombine, TopCombine, TopCombine>>,
      <<TopLegs + 1, 2, 2>>,
      <<2, TopLegs + 1, TopCombine + 1>> }

\* n offers that pass the filter, dearest first, every other one with a stop
BusyOffers(n) ==
    [i \in 1..n |->
        Offer(<<Slice(IF i % 2 = 0 THEN <<Seg(LH)>> ELSE <<Seg(LH), Seg(LH)>>,
                      Iso(<<10>>, <<>>))>>,
              Amount(900 - 10 * i))] \o <<>>

\* the provider's answer to a search of the call: the nominal one when no
\* number of offers was drawn
CallResponse(n) == IF n = 0 THEN NominalOneWay ELSE Response("nominal", BusyOffers(n))

\* n round-trip offers that pass the filter both ways, dearest first
BusyRoundTrips(n) ==
    [i \in 1..n |->
        RT(IF i % 2 = 0 THEN <<Seg(LH)>> ELSE <<Seg(LH), Seg(LH)>>, Iso(<<10>>, <<>>),
           <<Seg(LH)>>, Iso(<<11>>, <<>>), 2000 - 20 * i)] \o <<>>

\* the round-trip answers drawn: the nominal one, one two of whose three
\* offers have a return on two carriers, and one of more offers than the
\* builder combines
RoundTripsDrawn == {"nominal", "return_rejected", "busy"}

CallRoundTripResponse(kind) ==
    CASE kind = "nominal" -> NominalRoundTrip
      [] kind = "return_rejected" ->
            Response("nominal",
                     << RoundTripOffers.a,
                        RT(<<Seg(AI)>>, Iso(<<9>>, <<>>), <<Seg(LH), Seg(AI)>>, Iso(<<9>>, <<>>), 700),
                        RT(<<Seg(AI)>>, Iso(<<8>>, <<>>), <<Seg(AI), Seg(LH)>>, Iso(<<9>>, <<>>), 640) >>)
      [] OTHER -> Response("nominal", BusyRoundTrips(TopCombine + 1))

InitCall ==
    /\ prog = "call"
    /\ fast_flights_available = FALSE
    /\ opt = 1 /\ cands = <<>> /\ all_itineraries = <<>> /\ itins = <<>>
    /\ built = <<>> /\ runs = <<>> /\ printed = <<>> /\ persisted = <<>>
    /\ console = <<>>
    /\ faults = 0 /\ lastFetch = <<>> /\ netCalls = 0 /\ pace = NeverCalled
    /\ cache = <<>> /\ todo = <<>> /\ pending = <<>> /\ gp = 1 /\ scenarios = <<>>
    /\ leg = <<>> /\ verdict = <<>>
    /\ \/ /\ pc = "search_trip_option"
          /\ args \in [sea_depart : {<<2026, 5, 2>>},
                       europe_nights : NightsDrawn,
                       india_nights : NightsDrawn,
                       offers : {<<0, 0, 0>>}]
       \/ /\ pc = "search_trip_option"
          /\ args \in [sea_depart : {<<2026, 5, 2>>},
                       europe_nights : {22},
                       india_nights : {6},
                       offers : OffersDrawn]
       \/ /\ pc = "search_round_trip_strategy"
          /\ args \in [sea_depart : {<<2026, 5, 2>>},
                       europe_nights : {21},
                       india_nights : {6},
                       offers : [1..2 -> RoundTripsDrawn]]
    /\ session = <<>> /\ returns = <<>> /\ sound = <<>>
    /\ frames = <<>> /\ ratio = 0 /\ deduped = <<>>

\* the three search_flights calls of search_trip_option(sea_depart,
\* europe_nights, india_nights), on the dates it derives
CallSearches ==
    [k \in 1..3 |->
        search_flights(<<"SEA", "MXP", "HYD">>[k], <<"MXP", "HYD", "SEA">>[k],
                       <<args.sea_depart,
                         TripDates(args.sea_depart, args.europe_nights,
                                   args.india_nights).europe_depart,
                         TripDates(args.sea_depart, args.europe_nights,
                                   args.india_nights).india_depart>>[k],
                       CallResponse(args.offers[k]), TransportFailure,
                       fast_flights_available)] \o <<>>

\* what the call leaves behind: s is what the searches returned, r what the
\* builder returned
CallTripOptionReturn(s, r) ==
    /\ cands' = <<s[1].legs, s[2].legs, s[3].legs>>
    /\ lastFetch' = s[1].calls \o s[2].calls \o s[3].calls
    /\ netCalls' = netCalls + Len(s[1].calls) + Len(s[2].calls) + Len(s[3].calls)
    /\ pace' = DuffelCalled(DuffelCalled(DuffelCalled(pace)))
    /\ console' = console \o SkipLine(r.skipped, "Incomplete results, skipping this option")
    /\ built' = r.emitted
    /\ itins' = r.its
    /\ pc' = IF s[1].raised \/ s[2].raised \/ s[3].raised \/ r.raised
             THEN "raised" ELSE "returned"

CallTripOptionBuild(s) ==
    CallTripOptionReturn(s,
        [skipped |-> incomplete_trip_option(<<s[1].legs, s[2].legs, s[3].legs>>)]
        @@ search_trip_option(<<s[1].legs, s[2].legs, s[3].legs>>, args.sea_depart,
                              args.europe_nights, args.india_nights))

\* search_trip_option(sea_depart, europe_nights, india_nights): the dates, the
\* three searches, the builder. Nothing in it looks at the sign of the nights.
CallSearchTripOption ==
    /\ prog = "call" /\ pc = "search_trip_option"
    /\ CallTripOptionBuild(CallSearches)
    /\ UNCHANGED <<prog, fast_flights_available, opt, all_itineraries, runs, printed,
                   persisted, faults, args>>
    /\ UNCHANGED sweepVars /\ UNCHANGED legVars
    /\ UNCHANGED <<session, returns, sound, frames, ratio, deduped>>

\* the two search_roundtrip_duffel calls of search_round_trip_strategy
CallRoundTripSearches ==
    [k \in 1..2 |->
        search_roundtrip_duffel(RoundTripRequest(args, k).from, RoundTripRequest(args, k).to,
                                RoundTripRequest(args, k).date, RoundTripRequest(args, k).ret,
                                CallRoundTripResponse(args.offers[k]))] \o <<>>

CallRoundTripReturn(rt, r) ==
    /\ cands' = rt[1].legs \o rt[2].legs
    /\ lastFetch' = <<[adapter |-> "search_roundtrip_duffel", response |-> "nominal",
                       raised |-> rt[2].raised, legs |-> rt[2].legs]>>
    /\ netCalls' = netCalls + 2
    /\ pace' = DuffelCalled(DuffelCalled(pace))
    /\ console' = console \o SkipLine(r.skipped, "Incomplete results, skipping")
    /\ built' = r.emitted
    /\ itins' = r.its
    /\ pc' = IF rt[1].raised \/ rt[2].raised \/ r.raised
             THEN "raised" ELSE "returned_round_trip"

CallRoundTripBuild(rt) ==
    CallRoundTripReturn(rt,
        [skipped |-> incomplete_round_trip(rt[1].legs \o rt[2].legs)]
        @@ search_round_trip_strategy(rt[1].legs \o rt[2].legs, args.sea_depart,
                                      args.europe_nights, args.india_nights))

\* search_round_trip_strategy(sea_depart, europe_nights_before_india,
\* india_nights): the dates, the two round-trip searches, the builder
CallSearchRoundTripStrategy ==
    /\ prog = "call" /\ pc = "search_round_trip_strategy"
    /\ CallRoundTripBuild(CallRoundTripSearches)
    /\ UNCHANGED <<prog, fast_flights_available, opt, all_itineraries, runs, printed,
                   persisted, faults, args>>
    /\ UNCHANGED sweepVars /\ UNCHANGED legVars
    /\ UNCHANGED <<session, returns, sound, frames, ratio, deduped>>

-----------------------------------------------------------------------------
(* pomodoro/pomodoro.py *)

\* the flight tools are not running
FlightsIdle ==
    /\ fast_flights_available = FALSE
    /\ opt = 1 /\ cands = <<>> /\ all_itineraries = <<>> /\ itins = <<>>
    /\ built = <<>> /\ runs = <<>> /\ printed = <<>> /\ persisted = <<>>
    /\ console = <<>>
    /\ faults = 0 /\ lastFetch = <<>> /\ netCalls = 0 /\ pace = NeverCalled
    /\ cache = <<>> /\ todo = <<>> /\ pending = <<>> /\ gp = 1 /\ scenarios = <<>>
    /\ leg = <<>> /\ verdict = <<>>

flightVars == <<fast_flights_available, opt, cands, all_itineraries, itins, built, runs,
                printed, persisted, console, faults, lastFetch, netCalls, pace, cache, todo,
                pending, gp, scenarios, leg, verdict>>

WORK == "WORK"
SHORT_BREAK == "SHORT BREAK"
LONG_BREAK == "LONG BREAK"

Phases == {WORK, SHORT_BREAK, LONG_BREAK}

\* PomodoroSession.__init__
PomodoroSession(work_mins, short_break_mins, long_break_mins, total_sessions) ==
    [ work_secs |-> work_mins * 60,
      short_break_secs |-> short_break_mins * 60,
      long_break_secs |-> long_break_mins * 60,
      total_sessions |-> total_sessions,
      current_session |-> 1,
      phase |-> WORK,
      done |-> FALSE ]

advance_short_only(s) ==
    IF s.phase = WORK
    THEN IF s.current_session >= s.total_sessions
         THEN [session |-> [s EXCEPT !.done = TRUE], result |-> FALSE]
         ELSE [session |-> [s EXCEPT !.phase = SHORT_BREAK], result |-> TRUE]
    ELSE [session |-> [s EXCEPT !.current_session = @ + 1, !.phase = WORK],
          result |-> TRUE]

advance_trailing_break(s) ==
    IF s.phase = WORK
    THEN IF s.current_session > s.total_sessions
         THEN [session |-> [s EXCEPT !.done = TRUE], result |-> FALSE]
         ELSE [session |-> [s EXCEPT !.phase = IF s.current_session % 4 = 0
                                                THEN LONG_BREAK ELSE SHORT_BREAK],
               result |-> TRUE]
    ELSE [session |-> [s EXCEPT !.current_session = @ + 1, !.phase = WORK],
          result |-> TRUE]

\* a variant that counts the finished session as it completes
advance_counts_on(s) ==
    IF s.phase = WORK
    THEN IF s.current_session >= s.total_sessions
         THEN [session |-> [s EXCEPT !.done = TRUE, !.current_session = @ + 1],
               result |-> FALSE]
         ELSE [session |-> [s EXCEPT !.phase = IF s.current_session % 4 = 0
                                                THEN LONG_BREAK ELSE SHORT_BREAK],
               result |-> TRUE]
    ELSE [session |-> [s EXCEPT !.current_session = @ + 1, !.phase = WORK],
          result |-> TRUE]

\* PomodoroSession.advance: the session afterwards and the value returned
advance(s) ==
    IF s.phase = WORK
    THEN IF s.current_session >= s.total_sessions
         THEN [session |-> [s EXCEPT !.done = TRUE], result |-> FALSE]
         ELSE [session |-> [s EXCEPT !.phase = IF s.current_session % 4 = 0
                                                THEN LONG_BREAK ELSE SHORT_BREAK],
               result |-> TRUE]
    ELSE [session |-> [s EXCEPT !.current_session = @ + 1, !.phase = WORK],
          result |-> TRUE]

\* PomodoroSession.is_complete
is_complete(s) == s.done

\* PomodoroSession.sound_for_completed_phase
sound_for_completed_phase(s, completed_phase) ==
    IF s.done THEN "all_done"
    ELSE IF completed_phase = WORK THEN "work_done"
    ELSE "break_done"

\* the command lines drawn: --work and --sessions, the breaks at their defaults
InitPomodoro ==
    /\ prog = "pomodoro"
    /\ pc = "parse_args"
    /\ FlightsIdle
    /\ args \in [work : {0, 25}, short_break : {5}, long_break : {15},
                 sessions : 0..MaxSessions]
    /\ session = <<>> /\ returns = <<>> /\ sound = <<>>
    /\ frames = <<>> /\ ratio = 0 /\ deduped = <<>>

\* parse_args, then main's PomodoroSession(...)
ParseArgs ==
    /\ prog = "pomodoro" /\ pc = "parse_args"
    /\ IF args.work <= 0 \/ args.short_break <= 0 \/ args.long_break <= 0
          \/ args.sessions < 1
       THEN pc' = "parser_error" /\ session' = session
       ELSE /\ pc' = "session"
            /\ session' = PomodoroSession(args.work, args.short_break, args.long_break,
                                          args.sessions)
    /\ UNCHANGED <<prog, args, returns, sound, frames, ratio, deduped>>
    /\ UNCHANGED flightVars

\* the sound of a phase: which phase, whether it was the last work phase of the
\* session, whether advance() had been called for it, and the sound returned
SoundOf(completed_phase, final, advanced, value) ==
    [completed_phase |-> completed_phase, final |-> final, advanced |-> advanced,
     value |-> value]

\* one turn of main's loop once the timer has run out: advance(), then the sound
MainLoop ==
    /\ prog = "pomodoro" /\ pc = "session"
    /\ ~is_complete(session)
    /\ LET completed_phase == session.phase
           a == advance(session)
       IN /\ session' = a.session
          /\ returns' = Append(returns, a.result)
          /\ sound' = <<SoundOf(completed_phase,
                                completed_phase = WORK
                                   /\ session.current_session = session.total_sessions,
                                TRUE,
                                sound_for_completed_phase(a.session, completed_phase))>>
    /\ UNCHANGED <<prog, pc, args, frames, ratio, deduped>>
    /\ UNCHANGED flightVars

\* a call of advance() on the session object, complete or not
Advance ==
    /\ prog = "pomodoro" /\ pc = "session"
    /\ Len(returns) <= 2 * MaxSessions
    /\ LET a == advance(session)
       IN /\ session' = a.session
          /\ returns' = Append(returns, a.result)
    /\ UNCHANGED <<prog, pc, args, sound, frames, ratio, deduped>>
    /\ UNCHANGED flightVars

\* a call of sound_for_completed_phase on the session object, for the phase the
\* session is in (advance() not yet called for it) or for another phase
SoundForCompletedPhase ==
    /\ prog = "pomodoro" /\ pc = "session"
    /\ \E completed_phase \in Phases :
          sound' = <<SoundOf(completed_phase,
                             completed_phase = WORK /\ session.phase = WORK
                                /\ session.current_session = session.total_sessions,
                             session.done,
                             sound_for_completed_phase(session, completed_phase))>>
    /\ UNCHANGED <<prog, pc, args, session, returns, frames, ratio, deduped>>
    /\ UNCHANGED flightVars

-----------------------------------------------------------------------------
(* video_ocr.py: the frame deduplication *)

\* bin(a ^ b).count("1")
RECURSIVE hamming_distance(_, _)
hamming_distance(a, b) ==
    IF a = 0 /\ b = 0 THEN 0
    ELSE (IF a % 2 = b % 2 THEN 0 ELSE 1) + hamming_distance(a \div 2, b \div 2)

\* should_keep: max_diff_ratio is in hundredths, and diff_ratio(...) >
\* max_diff_ratio is compared without the division
should_keep(prev_hash, curr_hash, max_diff_ratio, hash_bits) ==
    IF ~(0 <= max_diff_ratio /\ max_diff_ratio <= 100) THEN [raised |-> TRUE, keep |-> FALSE]
    ELSE IF prev_hash = <<>> THEN [raised |-> FALSE, keep |-> TRUE]
    ELSE IF hash_bits <= 0 THEN [raised |-> TRUE, keep |-> FALSE]
    ELSE [raised |-> FALSE,
          keep |-> hamming_distance(prev_hash[1], curr_hash) * 100 > max_diff_ratio * hash_bits]

\* the loop of compute_ahash over the pixels, p > avg being p * len > sum
RECURSIVE HashBits(_, _, _, _)
HashBits(pixels, total, len, bits) ==
    IF pixels = <<>> THEN bits
    ELSE HashBits(Tail(pixels), total, len,
                  bits * 2 + (IF pixels[1] * len > total THEN 1 ELSE 0))

\* compute_ahash of the image, given as the pixels of its resized grayscale
compute_ahash(pixels, hash_size) ==
    IF hash_size <= 0 THEN [raised |-> TRUE, hash |-> 0]
    ELSE [raised |-> FALSE, hash |-> HashBits(pixels, SumSeq(pixels), Len(pixels), 0)]

RECURSIVE DedupeLoop_previous_frame(_, _, _, _, _)
DedupeLoop_previous_frame(fs, max_diff_ratio, hash_size, result, prev_hash) ==
    IF fs = <<>> THEN [raised |-> FALSE, kept |-> result]
    ELSE LET h == compute_ahash(fs[1].pixels, hash_size)
             k == should_keep(prev_hash, h.hash, max_diff_ratio, hash_size * hash_size)
         IN IF h.raised \/ k.raised THEN [raised |-> TRUE, kept |-> <<>>]
            ELSE DedupeLoop_previous_frame(Tail(fs), max_diff_ratio, hash_size,
                            IF k.keep THEN Append(result, fs[1]) ELSE result,
                            <<h.hash>>)

\* the loop of dedupe_frames
RECURSIVE DedupeLoop(_, _, _, _, _)
DedupeLoop(fs, max_diff_ratio, hash_size, result, prev_hash) ==
    IF fs = <<>> THEN [raised |-> FALSE, kept |-> result]
    ELSE LET h == compute_ahash(fs[1].pixels, hash_size)
             k == should_keep(prev_hash, h.hash, max_diff_ratio, hash_size * hash_size)
         IN IF h.raised \/ k.raised THEN [raised |-> TRUE, kept |-> <<>>]
            ELSE DedupeLoop(Tail(fs), max_diff_ratio, hash_size,
                            IF k.keep THEN Append(result, fs[1]) ELSE result,
                            IF k.keep THEN <<h.hash>> ELSE prev_hash)

dedupe_frames_against_previous(fs, max_diff_ratio, hash_size) ==
    DedupeLoop_previous_frame(fs, max_diff_ratio, hash_size, <<>>, <<>>)

dedupe_frames(fs, max_diff_ratio, hash_size) ==
    DedupeLoop(fs, max_diff_ratio, hash_size, <<>>, <<>>)

\* resized grayscale images at --hash-size 2: blank, one, two and three
\* bright pixels, and a uniformly grey one
Images ==
    { <<0, 0, 0, 0>>, <<0, 0, 0, 200>>, <<0, 0, 200, 200>>, <<0, 200, 200, 200>>,
      <<10, 10, 10, 10>> }

\* the thresholds drawn, in hundredths
Thresholds == {0, 24, 25, 50, 100, 101}

\* extract_frames: frame numbers start at 1
FramesOf(imgs) == [i \in DOMAIN imgs |-> [frame_num |-> i, pixels |-> imgs[i]]] \o <<>>

InitDedupe ==
    /\ prog = "dedupe"
    /\ pc = "dedupe_frames"
    /\ FlightsIdle
    /\ args \in [hash_size : {0, 2}]
    /\ session = <<>> /\ returns = <<>> /\ sound = <<>>
    /\ \E n \in 0..MaxFrames : \E imgs \in [1..n -> Images] : frames = FramesOf(imgs)
    /\ ratio \in Thresholds
    /\ deduped = <<>>

\* process_video's frames = dedupe_frames(frames, dedupe_threshold, hash_size)
DedupeFrames ==
    /\ prog = "dedupe" /\ pc = "dedupe_frames"
    /\ LET r == dedupe_frames(frames, ratio, args.hash_size)
       IN /\ pc' = IF r.raised THEN "raised" ELSE "returned"
          /\ deduped' = r.kept
    /\ UNCHANGED <<prog, args, session, returns, sound, frames, ratio>>
    /\ UNCHANGED flightVars

-----------------------------------------------------------------------------
(* count_weekdays and Scenario.weekdays called over ranges of dates *)

\* the start dates drawn: a Saturday and the six days after it
StartsDrawn == { <<2026, 5, d>> : d \in 2..8 }

InitWeekdays ==
    /\ prog = "weekdays"
    /\ pc = "count_weekdays"
    /\ FlightsIdle
    /\ \E start \in StartsDrawn :
          args = [start_date |-> start, end_date |-> strftime(strptime(start) - 1)]
    /\ session = <<>> /\ returns = <<>> /\ sound = <<>>
    /\ frames = <<>> /\ ratio = 0 /\ deduped = <<>>

\* count_weekdays(start_date, end_date), and the weekdays property of a
\* Scenario that starts on start_date and returns on end_date; the caller then
\* moves the end date one day on
CountWeekdays ==
    /\ prog = "weekdays" /\ pc = "count_weekdays"
    /\ LET days == strptime(args.end_date) - strptime(args.start_date)
       IN /\ returns' = Append(returns,
                [start_date |-> args.start_date, end_date |-> args.end_date,
                 weekdays |-> count_weekdays(args.start_date, args.end_date),
                 scenario |-> IF days >= 1
                              THEN <<Scenario_weekdays(
                                        Scenario("one_way_x3", args.start_date, days - 1, 0, <<>>))>>
                              ELSE <<>>])
          /\ IF days < MaxTripDays
             THEN pc' = pc /\ args' = [args EXCEPT !.end_date = strftime(strptime(@) + 1)]
             ELSE pc' = "counted" /\ args' = args
    /\ UNCHANGED <<prog, session, sound, frames, ratio, deduped>>
    /\ UNCHANGED flightVars

-----------------------------------------------------------------------------
Init == InitOptimizer \/ InitSweep \/ InitLeg \/ InitCall \/ InitWeekdays
           \/ InitPomodoro \/ InitDedupe

Next ==
    \/ SearchFlights
    \/ BuildTripOption
    \/ SearchRoundtrip
    \/ BuildRoundTrip
    \/ PrintResults
    \/ SaveResults
    \/ CollectCached
    \/ CollectFetch
    \/ CollectSave
    \/ CollectAgain
    \/ StartAnalyze
    \/ BuildScenarios
    \/ ReportScenarios
    \/ CheckFlightLeg
    \/ CheckFlight
    \/ CallSearchTripOption
    \/ CallSearchRoundTripStrategy
    \/ CountWeekdays
    \/ ParseArgs
    \/ MainLoop
    \/ Advance
    \/ SoundForCompletedPhase
    \/ DedupeFrames

Spec == Init /\ [][Next]_vars

-----------------------------------------------------------------------------
(* Properties *)

\* the itineraries or scenarios the builders have emitted into the aggregate
Emitted == IF prog = "sweep" THEN scenarios ELSE all_itineraries

LegsNeeded(strategy) == IF strategy = "one_way_x3" THEN 3 ELSE 4

\* C1: a builder call that was given an empty candidate list returned no
\* itinerary, no builder call raised, and every itinerary or scenario a builder
\* returned has three legs (one-ways) or four legs (round trips)
C1_FailClosed ==
    /\ pc # "crashed_builder"
    /\ \A k \in DOMAIN runs :
          /\ Len(runs[k].sizes) = LegsNeeded(runs[k].strategy)
          /\ (\E i \in DOMAIN runs[k].sizes : runs[k].sizes[i] = 0) => runs[k].returned = <<>>
          /\ \A j \in DOMAIN runs[k].returned :
                Len(runs[k].returned[j].legs) = LegsNeeded(runs[k].strategy)
    /\ \A j \in DOMAIN Emitted :
          Len(Emitted[j].legs) = LegsNeeded(IF prog = "sweep" THEN Emitted[j].strategy
                                            ELSE Emitted[j].source)

\* a round-trip builder call that had outbound candidates and no return
\* candidates, after a one-way call that returned itineraries
C1_Witness ==
    \E k \in DOMAIN runs, m \in DOMAIN runs :
        /\ runs[k].strategy = "round_trip_x2"
        /\ runs[k].sizes[1] > 0 /\ runs[k].sizes[2] = 0
        /\ runs[k].returned = <<>>
        /\ runs[m].strategy = "one_way_x3" /\ runs[m].returned # <<>>

\* C2: every leg of every emitted itinerary or scenario has at most MAX_STOPS
\* stops, a carrier string without a comma, and a price that is not the
\* invalid-price sentinel
C2_EmittedLegsPassConstraints ==
    \A j \in DOMAIN Emitted : \A n \in DOMAIN Emitted[j].legs :
        LET l == Emitted[j].legs[n]
        IN /\ l.stops <= MAX_STOPS
           /\ \A c \in DOMAIN l.airline : l.airline[c] \notin CommaPieces
           /\ l.price # Inf

\* itineraries were emitted from a provider answer that also held an offer with
\* two stops and an offer of two carriers
C2_Witness ==
    /\ Emitted # <<>>
    /\ lastFetch # <<>>
    /\ lastFetch[1].response = "nominal"
    /\ OneWayOffers.twostops \in Range(NominalOneWay.offers)
    /\ OneWayOffers.twocarriers \in Range(NominalOneWay.offers)
    /\ pc \in {"strategy_a", "strategy_b"}

\* Monday-to-Friday dates of the closed range from the day number a to b
WeekdaysBetween(a, b) == Cardinality({n \in a..b : (n + 2) % 7 \in 0..4})

\* price + duration_hours * COST_PER_HOUR + stops * COST_PER_STOP, the
\* duration given in minutes
LegCost(price, minutes, stops) ==
    price + (minutes * COST_PER_HOUR) \div 60 + stops * COST_PER_STOP

DurationMinutes(d) ==
    60 * (IF d.hr = <<>> THEN 0 ELSE d.hr[1]) + (IF d.min = <<>> THEN 0 ELSE d.min[1])

\* C3: the total score of every emitted itinerary and scenario, and the one
\* written to the results file, is the sum of its legs' costs plus
\* COST_PER_WEEKDAY for each Monday-to-Friday date from its start to its end date
C3_TotalScore ==
    /\ prog = "optimizer" =>
          /\ \A j \in DOMAIN all_itineraries :
                LET it == all_itineraries[j]
                IN total_score(it) =
                      SumSeq([n \in DOMAIN it.legs |->
                                  LegCost(it.legs[n].price, DurationMinutes(it.legs[n].duration),
                                          it.legs[n].stops)])
                      + COST_PER_WEEKDAY
                          * WeekdaysBetween(strptime(it.depart_date), strptime(it.return_date))
          /\ persisted # <<>> =>
                \A j \in DOMAIN persisted[1] :
                   LET rec == persisted[1][j]
                   IN rec.total_score =
                         SumSeq([n \in DOMAIN rec.legs |->
                                     LegCost(rec.legs[n].price,
                                             DurationMinutes(rec.legs[n].duration),
                                             rec.legs[n].stops)])
                         + COST_PER_WEEKDAY
                             * WeekdaysBetween(strptime(rec.depart_date), strptime(rec.return_date))
    /\ prog = "sweep" =>
          /\ \A j \in DOMAIN scenarios :
                LET sc == scenarios[j]
                IN Scenario_total_score(sc) =
                      SumSeq([n \in DOMAIN sc.legs |->
                                  LegCost(sc.legs[n].price, sc.legs[n].duration_hours,
                                          sc.legs[n].stops)])
                      + COST_PER_WEEKDAY
                          * WeekdaysBetween(strptime(sc.depart_date),
                                strptime(sc.depart_date) + 1 + sc.europe_nights + sc.india_nights)
          /\ persisted # <<>> =>
                \A j \in DOMAIN persisted[1] :
                   LET rec == persisted[1][j]
                   IN rec.total_score =
                         SumSeq([n \in DOMAIN rec.legs |->
                                     LegCost(rec.legs[n].price, rec.legs[n].duration_hours,
                                             rec.legs[n].stops)])
                         + COST_PER_WEEKDAY
                             * WeekdaysBetween(strptime(rec.depart_date), strptime(rec.return_date))

\* a results file with a record whose trip spans a weekend and whose legs have
\* stops and a duration that is not a whole number of hours
C3_Witness ==
    /\ persisted # <<>>
    /\ \E j \in DOMAIN persisted[1] :
          LET rec == persisted[1][j]
          IN /\ rec.weekdays > 0
             /\ rec.weekdays < strptime(rec.return_date) - strptime(rec.depart_date) + 1
             /\ \E n \in DOMAIN rec.legs : rec.legs[n].stops > 0
             /\ \E n \in DOMAIN rec.legs : rec.legs[n].price > 0

\* the first place of out[p] in the list in
FirstPlaces(out, in) ==
    [p \in DOMAIN out |->
        IF \E i \in DOMAIN in : in[i] = out[p]
        THEN CHOOSE i \in DOMAIN in : in[i] = out[p] /\ \A j \in 1..(i - 1) : in[j] # out[p]
        ELSE 0] \o <<>>

Occurrences(s, x) == Cardinality({i \in DOMAIN s : s[i] = x})

\* out holds the Len(out) first elements of in in ascending order of key,
\* elements of equal key in the order they have in in; kout and kin are the keys
RankedPrefix(out, in, kout, kin) ==
    LET first == FirstPlaces(out, in)
        n == Len(out)
    IN /\ n <= Len(in)
       /\ \A p \in DOMAIN out : first[p] > 0 /\ Occurrences(out, out[p]) <= Occurrences(in, out[p])
       /\ \A p \in DOMAIN out : \A q \in DOMAIN out :
             p < q => /\ kout[p] <= kout[q]
                      /\ (kout[p] = kout[q] /\ out[p] # out[q]) => first[p] < first[q]
       /\ \A i \in DOMAIN in :
             Occurrences(out, in[i]) < Occurrences(in, in[i]) =>
                /\ n > 0 => kin[i] >= kout[n]
                /\ (n > 0 /\ kin[i] = kout[n] /\ in[i] # out[n]) => i > first[n]

RecordScores(recs) == [i \in DOMAIN recs |-> recs[i].total_score] \o <<>>

\* C4: what a ranker hands on is in ascending order of total score, itineraries
\* of equal score in the order the builder emitted them: the list each builder
\* call returns, the ranking that is printed, and the ranking that is written
C4_StableAscending ==
    /\ (prog = "optimizer" /\ pc # "done") =>
          /\ Len(itins) = Min2(TopPerPoint, Len(built))
          /\ RankedPrefix(itins, built, TotalScores(itins), TotalScores(built))
    /\ (prog = "optimizer" /\ printed # <<>>) =>
          /\ Len(printed[1].items) = Min2(TopPrinted, Len(all_itineraries))
          /\ RankedPrefix(printed[1].items, all_itineraries,
                          TotalScores(printed[1].items), TotalScores(all_itineraries))
    /\ (prog = "optimizer" /\ persisted # <<>>) =>
          LET recs == JsonRecords(all_itineraries)
          IN RankedPrefix(persisted[1], recs, RecordScores(persisted[1]), RecordScores(recs))
    /\ (prog = "sweep" /\ pc = "done" /\ persisted # <<>>) =>
          /\ Len(scenarios) = Len(built)
          /\ RankedPrefix(scenarios, built, ScenarioScores(scenarios), ScenarioScores(built))
          /\ Len(persisted[1]) = Len(scenarios)
          /\ \A k \in DOMAIN persisted[1] :
                /\ persisted[1][k].rank = k
                /\ persisted[1][k].total_score = Scenario_total_score(scenarios[k])
                /\ persisted[1][k].strategy = scenarios[k].strategy
                /\ persisted[1][k].depart_date = scenarios[k].depart_date
                /\ persisted[1][k].europe_nights = scenarios[k].europe_nights
                /\ persisted[1][k].india_nights = scenarios[k].india_nights
          /\ printed[1].items = Take(scenarios, TopPrinted)

\* a builder call returned two different itineraries of equal total score, the
\* one emitted first standing first, and the emitted list was not in that order
C4_Witness ==
    /\ prog = "optimizer" /\ pc \in {"strategy_a", "strategy_b"}
    /\ \E p \in DOMAIN itins : \E q \in DOMAIN itins :
          /\ p < q
          /\ total_score(itins[p]) = total_score(itins[q])
          /\ itins[p] # itins[q]
    /\ Take(built, Len(itins)) # itins

\* every grid point has been handed to both builders, in the grid's order
GridExhausted ==
    IF prog = "optimizer"
    THEN /\ Len(runs) = 2 * Len(departure_options)
         /\ \A k \in DOMAIN runs :
               runs[k].option = ((k - 1) % Len(departure_options)) + 1
    ELSE /\ Len(runs) = 2 * GridSize
         /\ \A k \in DOMAIN runs : runs[k].option = (k + 1) \div 2

\* what all builder calls so far returned, in the order of the calls
Aggregated == Flatten([k \in DOMAIN runs |-> runs[k].returned] \o <<>>)

Ascending(keys) == \A p \in DOMAIN keys : \A q \in DOMAIN keys : p < q => keys[p] <= keys[q]

\* recs are n records of lowest total score among all
LowestOf(recs, all) ==
    /\ Ascending(RecordScores(recs))
    /\ \A p \in DOMAIN recs : Occurrences(recs, recs[p]) <= Occurrences(all, recs[p])
    /\ \A i \in DOMAIN all :
          Occurrences(recs, all[i]) < Occurrences(all, all[i]) =>
             \A p \in DOMAIN recs : recs[p].total_score <= all[i].total_score

\* the claim as stated: nothing is printed or written before the grid is
\* exhausted, and what is written or printed is in ascending order of total
\* score and holds at most TopSaved entries
C5_AtMostTopSaved ==
    /\ (persisted # <<>> \/ printed # <<>>) => GridExhausted
    /\ persisted # <<>> =>
          /\ Len(persisted[1]) <= TopSaved
          /\ Ascending(RecordScores(persisted[1]))
    /\ printed # <<>> => Len(printed[1].items) <= TopSaved

\* C5: nothing is printed or written before every grid point has been handed
\* to the builders; the results file is then in ascending order of total score
\* over the whole aggregate: flight_optimizer.py writes the TopSaved lowest
\* (all when fewer), flight_sweep_analyze.py writes every scenario; both print
\* at most TopPrinted
C5_RankingAfterFullGrid ==
    /\ (persisted # <<>> \/ printed # <<>>) => GridExhausted
    /\ printed # <<>> => Len(printed[1].items) <= TopPrinted
    /\ (prog = "optimizer" /\ persisted # <<>>) =>
          /\ all_itineraries = Aggregated
          /\ Len(persisted[1]) = Min2(TopSaved, Len(Aggregated))
          /\ LowestOf(persisted[1], JsonRecords(Aggregated))
    /\ (prog = "sweep" /\ persisted # <<>>) =>
          /\ built = Aggregated
          /\ Len(persisted[1]) = Len(Aggregated)
          /\ LowestOf(persisted[1], ScenarioRecords(scenarios))
          /\ \A i \in DOMAIN Aggregated :
                Occurrences(scenarios, Aggregated[i]) = Occurrences(Aggregated, Aggregated[i])

\* the analysis wrote its results file from an aggregate of more than TopSaved
\* scenarios, a grid point having been skipped
C5_Witness ==
    /\ prog = "sweep"
    /\ persisted # <<>>
    /\ Len(Aggregated) > TopSaved
    /\ Len(persisted[1]) > TopSaved
    /\ \E k \in DOMAIN runs : runs[k].returned = <<>>

\* a builder call that was given an empty candidate list
Skipped(run) == \E i \in DOMAIN run.sizes : run.sizes[i] = 0

\* the aggregate before the final ranking reorders it
Aggregate ==
    IF prog = "sweep"
    THEN (IF pc = "done" /\ scenarios # <<>> THEN built ELSE scenarios)
    ELSE all_itineraries

\* the builder calls of a finished sweep
SweepFinished == pc \in {"print_results", "save_results", "report", "done"}

\* the entry x of the aggregate was built for the grid point of the call run
OfGridPoint(x, run) ==
    IF prog = "sweep"
    THEN /\ x.depart_date = GridPoint(run.option).depart_date
         /\ x.europe_nights = GridPoint(run.option).europe_nights
         /\ x.india_nights = GridPoint(run.option).india_nights
    ELSE x.depart_date = departure_options[run.option].sea_depart

NoLegs(legs) == legs = <<>> \/ legs = << <<>>, <<>> >>

\* what a search leaves alone apart from the candidate lists and the cache file
\* it fills
CallerState ==
    <<prog, pc, opt, all_itineraries, itins, runs, printed, persisted, cache, todo,
      gp, scenarios>>

\* C7: a search whose provider call fails does not raise: the adapter returns
\* no legs, and the step changes nothing of the caller but the candidate lists,
\* which gain empty lists only
C7_TransportFailureContained ==
    /\ [](pc # "crashed_adapter")
    /\ [](\A i \in DOMAIN lastFetch :
             lastFetch[i].response = "transport_failure" =>
                ~lastFetch[i].raised /\ NoLegs(lastFetch[i].legs))
    /\ [][(faults' # faults
             /\ \E i \in DOMAIN lastFetch' : lastFetch'[i].response = "transport_failure")
          => /\ CallerState' = CallerState
             /\ prog = "optimizer" =>
                   /\ Len(cands') > Len(cands)
                   /\ \A i \in DOMAIN cands : cands'[i] = cands[i]
                   /\ (\A i \in DOMAIN lastFetch' : lastFetch'[i].legs = <<>>) =>
                         \A i \in DOMAIN cands' : i > Len(cands) => cands'[i] = <<>>
             /\ prog = "sweep" =>
                   /\ cands' = cands
                   /\ pending' # <<>> /\ pending'[1].task = todo[1]
                   /\ pending'[1].data.offers = <<>>]_vars

\* a failed provider call, after candidates were found and itineraries built
C7_Witness ==
    /\ lastFetch # <<>>
    /\ lastFetch[Len(lastFetch)].response = "transport_failure"
    /\ \/ prog = "optimizer" /\ all_itineraries # <<>> /\ cands # <<>>
                             /\ cands[Len(cands)] = <<>>
       \/ prog = "sweep" /\ pending # <<>> /\ cache # <<>>

\* the cache key of a search of the collect phase
KeyOf(t) == get_cache_path(t.source, t.origin, t.dest, t.date, t.return_date)

\* C8: in the collect phase a search is made only for a key without a cache
\* file, the next step writes the file of exactly that key and only then moves
\* on to the next key, a file once written is never changed, and the analysis
\* makes no network call and leaves the cache as it is
C8_ReadBeforeFetchWriteAfter ==
    [][prog = "sweep" =>
          /\ (pending = <<>> /\ pending' # <<>>) =>
                /\ pc = "collect"
                /\ KeyOf(todo[1]) \notin DOMAIN cache
                /\ pending'[1].task = todo[1]
                /\ todo' = todo /\ cache' = cache
          /\ netCalls' # netCalls => (pending = <<>> /\ pending' # <<>>)
          /\ pending # <<>> =>
                /\ pending' = <<>>
                /\ DOMAIN cache' = DOMAIN cache \cup {KeyOf(pending[1].task)}
                /\ KeyOf(pending[1].task) \notin DOMAIN cache
                /\ cache'[KeyOf(pending[1].task)].data = pending[1].data
                /\ todo # <<>> /\ todo[1] = pending[1].task /\ todo' = Tail(todo)
          /\ (todo # <<>> /\ todo' # todo) =>
                (todo' = Tail(todo) /\ KeyOf(todo[1]) \in DOMAIN cache')
          /\ \A f \in DOMAIN cache : f \in DOMAIN cache' /\ cache'[f] = cache[f]
          /\ cache' # cache => pending # <<>>
          /\ pc \in {"build_scenarios", "report", "done"} =>
                netCalls' = netCalls /\ cache' = cache /\ pending' = <<>>]_vars

\* a search was made and awaits its cache write, after the searches whose
\* files an earlier run had left were passed over
C8_Witness ==
    /\ prog = "sweep" /\ pc = "collect"
    /\ pending # <<>>
    /\ netCalls > 0
    /\ Len(todo) = Len(CollectTasks) - PriorTasks
    /\ Cardinality(DOMAIN cache) = PriorTasks

\* the claim as stated, of both filters: too many stops, a comma in the
\* carrier, or the invalid price each make passes_constraints() false
C9_BothFiltersRejectAll ==
    verdict # <<>> =>
       ((leg.stops > MAX_STOPS \/ HasComma(leg.airline) \/ leg.price = Inf)
           => ~verdict[1].passes)

\* C9: too many stops or a comma in the carrier each make both
\* FlightLeg.passes_constraints() and Flight.passes_constraints() false, and
\* the invalid price makes FlightLeg.passes_constraints() false, whatever the
\* other fields hold
C9_RejectsIndependently ==
    verdict # <<>> =>
       /\ leg.stops > MAX_STOPS => ~verdict[1].passes
       /\ HasComma(leg.airline) => ~verdict[1].passes
       /\ (verdict[1].of = "FlightLeg" /\ leg.price = Inf) => ~verdict[1].passes

\* the carrier rule alone rejected a leg: FlightLeg.passes_constraints() is
\* false of a priced leg without stops whose carrier holds a comma
C9_Witness ==
    /\ verdict # <<>>
    /\ verdict[1].of = "FlightLeg"
    /\ leg.stops = 0 /\ leg.price = 500 /\ HasComma(leg.airline)
    /\ ~verdict[1].passes

\* the carrier field names exactly one carrier
OneCarrier(airline) == Len(airline) = 1 /\ ~HasComma(airline)

\* C10: FlightLeg.passes_constraints() is true exactly of the legs with at most
\* MAX_STOPS stops, one carrier, and a price that is neither the invalid price
\* nor negative
C10_PassesIffValid ==
    (verdict # <<>> /\ verdict[1].of = "FlightLeg") =>
       (verdict[1].passes <=>
           (leg.stops <= MAX_STOPS /\ OneCarrier(leg.airline)
               /\ leg.price # Inf /\ leg.price >= 0))

\* the stay durations of the call are not a valid configuration
InvalidNights == args.europe_nights <= 0 \/ args.india_nights <= 0

\* C11: a call of search_trip_option with a non-positive stay duration ends in
\* an error raised to the caller, and no flight search was made for it
C11_ConfigErrorBeforeFetch ==
    (prog = "call" /\ InvalidNights) =>
       /\ netCalls = 0
       /\ lastFetch = <<>>
       /\ pc \in {"search_trip_option", "raised"}


\* the grid points for which a builder call had an empty candidate list
SkippedPoints == {runs[k].option : k \in {j \in DOMAIN runs : Skipped(runs[j])}}

SkipLines == SelectSeq(console, LAMBDA l : l.n = <<>>)

ScoreOf(x) == IF prog = "sweep" THEN Scenario_total_score(x) ELSE total_score(x)

\* the final report shows the lowest-scoring entries of the aggregate, or says
\* that there is none
BestReported ==
    /\ printed # <<>>
    /\ Aggregated = <<>> =>
          /\ printed[1].kind \in {"No itineraries found!", "No valid scenarios found"}
          /\ printed[1].items = <<>>
    /\ Aggregated # <<>> =>
          /\ printed[1].kind = "top"
          /\ Len(printed[1].items) = Min2(TopPrinted, Len(Aggregated))
          /\ \A p \in DOMAIN printed[1].items :
                /\ Occurrences(Aggregated, printed[1].items[p]) > 0
                /\ \A q \in DOMAIN printed[1].items :
                      p < q => ScoreOf(printed[1].items[p]) <= ScoreOf(printed[1].items[q])
          /\ \A i \in DOMAIN Aggregated :
                Occurrences(printed[1].items, Aggregated[i]) = 0 =>
                   \A p \in DOMAIN printed[1].items :
                      ScoreOf(printed[1].items[p]) <= ScoreOf(Aggregated[i])

\* the claim as stated: a finished sweep reports the best results, or that
\* there are none, and when grid points were skipped some console line states
\* how many
C12_ReportsSkippedCount ==
    (prog \in {"optimizer", "sweep"} /\ pc = "done") =>
       /\ BestReported
       /\ SkippedPoints # {} =>
             \E i \in DOMAIN console : console[i].n = <<Cardinality(SkippedPoints)>>
                                       /\ console[i].text # "Valid scenarios"

\* C12: a finished sweep in which builder calls were skipped still reports the
\* lowest-scoring entries of what the other calls produced, and reports "no
\* itineraries found" when nothing was produced; flight_optimizer.py prints
\* one "Incomplete results, skipping" line per skipped builder call and no
\* count of them, flight_sweep_analyze.py prints only the number of valid
\* scenarios
C12_ReportsBestAndLogsSkips ==
    (prog \in {"optimizer", "sweep"} /\ pc = "done") =>
       /\ BestReported
       /\ prog = "optimizer" =>
             /\ console = SkipLines
             /\ Len(SkipLines) = Cardinality({k \in DOMAIN runs : Skipped(runs[k])})
       /\ prog = "sweep" => console = <<Line("Valid scenarios", <<Len(Aggregated)>>)>>

\* a finished optimizer sweep with a skipped grid point and a report of the
\* best of the others
C12_Witness ==
    /\ prog = "optimizer" /\ pc = "done"
    /\ SkippedPoints # {}
    /\ printed[1].kind = "top"
    /\ Len(SkipLines) > 0

InSession == prog = "pomodoro" /\ pc = "session"

\* a step in which advance() was called
AdvanceCalled == InSession /\ Len(returns') = Len(returns) + 1

\* C13: a new session is in WORK, in session 1, and not complete; advance()
\* from WORK in a session before the last one goes to LONG BREAK when the
\* session number is a multiple of 4 and to SHORT BREAK otherwise, and leaves
\* the session number alone; advance() from either break goes to WORK and adds
\* one to the session number
C13_PhaseTransitions ==
    /\ []((InSession /\ returns = <<>>) =>
            /\ session.phase = WORK
            /\ session.current_session = 1
            /\ ~is_complete(session))
    /\ [][AdvanceCalled =>
            /\ (session.phase = WORK /\ session.current_session < session.total_sessions) =>
                  /\ session'.phase = (IF session.current_session % 4 = 0
                                       THEN LONG_BREAK ELSE SHORT_BREAK)
                  /\ session'.current_session = session.current_session
            /\ session.phase \in {SHORT_BREAK, LONG_BREAK} =>
                  /\ session'.phase = WORK
                  /\ session'.current_session = session.current_session + 1]_vars

\* the fifth work session has begun, after three short breaks and a long one
C13_Witness ==
    /\ InSession
    /\ session.phase = WORK /\ session.current_session = 5
    /\ Len(returns) = 8

\* C14: with total_sessions = N >= 1 the session is complete from the
\* (2N-1)-th call of advance() on, that call being the first to return False,
\* and a complete session is still in WORK with current_session = N
C14_CompletesAfterLastWork ==
    InSession =>
       LET N == session.total_sessions
       IN /\ N >= 1
          /\ \A i \in DOMAIN returns : (returns[i] = FALSE) <=> (i >= 2 * N - 1)
          /\ is_complete(session) <=> (Len(returns) >= 2 * N - 1)
          /\ is_complete(session) =>
                /\ session.phase = WORK
                /\ session.current_session = N

\* a session of five work phases was completed by its ninth advance()
C14_Witness ==
    /\ InSession
    /\ session.total_sessions = 5
    /\ Len(returns) = 9
    /\ returns[9] = FALSE /\ returns[8] = TRUE
    /\ is_complete(session)

\* C15: sound_for_completed_phase returns "all_done" for the last work phase
\* of the session, whether advance() had been called for it or not, "work_done"
\* for any other work phase and "break_done" for a short or long break
C15_SoundOfCompletedPhase ==
    (InSession /\ sound # <<>>) =>
       sound[1].value = (IF sound[1].completed_phase = WORK
                         THEN (IF sound[1].final THEN "all_done" ELSE "work_done")
                         ELSE "break_done")

Deduped == prog = "dedupe" /\ pc = "returned"

AHash(f) == compute_ahash(f.pixels, args.hash_size).hash

\* the frames of the input that are in the result
KeptIndices == {i \in DOMAIN frames : \E j \in DOMAIN deduped : deduped[j] = frames[i]}

\* the last frame before frame i that was kept
LastKeptBefore(i) == CHOOSE j \in KeptIndices : j < i /\ \A k \in KeptIndices : k < i => k <= j

\* C16: dedupe_frames keeps the first frame; it keeps a later frame exactly
\* when the Hamming distance between its hash and the hash of the frame kept
\* last before it, over the number of hash bits, is strictly greater than
\* max_diff_ratio; the result is the kept frames in their input order
C16_KeepsFramesThatDiffer ==
    Deduped =>
       /\ frames # <<>> => (deduped # <<>> /\ deduped[1] = frames[1])
       /\ \A j \in DOMAIN deduped : \E i \in DOMAIN frames : deduped[j] = frames[i]
       /\ \A j \in DOMAIN deduped : \A k \in DOMAIN deduped :
             j < k => deduped[j].frame_num < deduped[k].frame_num
       /\ \A i \in DOMAIN frames :
             i > 1 =>
                (i \in KeptIndices <=>
                    hamming_distance(AHash(frames[LastKeptBefore(i)]), AHash(frames[i])) * 100
                       > ratio * args.hash_size * args.hash_size)

\* at max_diff_ratio 0.25 a frame one bit of four away from the first was
\* dropped and the next frame, two bits away from the first and one from the
\* dropped frame, was kept
C16_Witness ==
    /\ Deduped
    /\ ratio = 25
    /\ Len(frames) = 3 /\ Len(deduped) = 2
    /\ deduped[2] = frames[3]
    /\ hamming_distance(AHash(frames[1]), AHash(frames[2])) = 1
    /\ hamming_distance(AHash(frames[2]), AHash(frames[3])) = 1
    /\ hamming_distance(AHash(frames[1]), AHash(frames[3])) = 2

\* a call of search_trip_option that returned, none of its lists being empty
TripOptionBuilt ==
    /\ prog = "call" /\ pc = "returned"
    /\ Len(cands) = 3
    /\ \A i \in 1..3 : cands[i] # <<>>

FirstFive(l) == 1..Min2(5, Len(l))

\* C17: search_trip_option forms one itinerary for each combination of the
\* first five legs of each of its three lists, min(5,|L1|) * min(5,|L2|) *
\* min(5,|L3|) <= 125 of them and none twice, and returns the 10 of lowest
\* total score, all of them when there are fewer
C17_CartesianOfFirstFive ==
    TripOptionBuilt =>
       /\ Len(built) = Cardinality(FirstFive(cands[1])) * Cardinality(FirstFive(cands[2]))
                          * Cardinality(FirstFive(cands[3]))
       /\ Len(built) <= 125
       /\ \A i \in FirstFive(cands[1]) : \A j \in FirstFive(cands[2]) :
             \A k \in FirstFive(cands[3]) :
                Cardinality({n \in DOMAIN built :
                                built[n].legs = <<cands[1][i], cands[2][j], cands[3][k]>>}) = 1
       /\ Len(itins) = Min2(10, Len(built))
       /\ \A p \in DOMAIN itins :
             /\ Occurrences(itins, itins[p]) = 1
             /\ Occurrences(built, itins[p]) = 1
             /\ \A q \in DOMAIN itins : p < q => total_score(itins[p]) <= total_score(itins[q])
       /\ \A n \in DOMAIN built :
             Occurrences(itins, built[n]) = 0 =>
                \A p \in DOMAIN itins : total_score(itins[p]) <= total_score(built[n])

\* lists of five, six and five legs gave 125 itineraries, of which 10 were
\* returned
C17_Witness ==
    /\ TripOptionBuilt
    /\ Len(cands[1]) = 5 /\ Len(cands[2]) = 6 /\ Len(cands[3]) = 5
    /\ Len(built) = 125
    /\ Len(itins) = 10

\* a call of search_round_trip_strategy that returned, none of its lists being
\* empty: cands = <<trip-1 outbound, trip-1 return, trip-2 outbound, trip-2 return>>
RoundTripBuilt ==
    /\ prog = "call" /\ pc = "returned_round_trip"
    /\ Len(cands) = 4
    /\ \A i \in 1..4 : cands[i] # <<>>

\* the itineraries built are, once each, those of the pairs (i, r1[i]) of trip
\* 1 with the pairs (j, r2[j]) of trip 2
BuiltFromPairs(n1, r1, n2, r2) ==
    /\ Len(built) = n1 * n2
    /\ Len(built) <= 25
    /\ \A i \in 1..n1 : \A j \in 1..n2 :
          Cardinality({n \in DOMAIN built :
                          built[n].legs = <<cands[1][i], cands[3][j],
                                            cands[4][r2[j]], cands[2][r1[i]]>>}) = 1

\* the claim as stated: the pairs of a round trip are as many as the shorter
\* of its two lists has legs, at most 5, the i-th outbound leg with the i-th
\* return leg
C18_PairsUpToShorterList ==
    RoundTripBuilt =>
       LET n1 == Min2(5, Min2(Len(cands[1]), Len(cands[2])))
           n2 == Min2(5, Min2(Len(cands[3]), Len(cands[4])))
       IN BuiltFromPairs(n1, [i \in 1..n1 |-> i], n2, [j \in 1..n2 |-> j])

\* C18: search_round_trip_strategy pairs each of the first five outbound legs
\* of a round trip with the return leg of the same rank, and with the last
\* return leg when the return list has no leg of that rank; the itineraries
\* built are the product of the pairs of trip 1 with the pairs of trip 2, at
\* most 25, each with its legs in the order trip-1 outbound, trip-2 outbound,
\* trip-2 return, trip-1 return
C18_PairsReuseLastReturn ==
    RoundTripBuilt =>
       LET n1 == Min2(5, Len(cands[1]))
           n2 == Min2(5, Len(cands[3]))
       IN BuiltFromPairs(n1, [i \in 1..n1 |-> Min2(i, Len(cands[2]))],
                         n2, [j \in 1..n2 |-> Min2(j, Len(cands[4]))])

\* trip 1 had three outbound legs and one return leg, and its third outbound
\* leg was combined with that return leg
C18_Witness ==
    /\ RoundTripBuilt
    /\ Len(cands[1]) = 3 /\ Len(cands[2]) = 1
    /\ \E n \in DOMAIN built : /\ built[n].legs[1] = cands[1][3]
                               /\ built[n].legs[4] = cands[2][1]

\* the total scores of every itinerary the builder calls formed, before any
\* of them was dropped, in ascending order
AllFormed == LET all == Flatten([k \in DOMAIN runs |-> runs[k].formed] \o <<>>)
             IN SortByKeys(all, all)

\* the ranking main saves and prints from: the merged lists in ascending order
Ranked == TotalScores(SortItineraries(all_itineraries))

RankingDone == prog = "optimizer" /\ pc \in {"save_results", "done"}

\* the claim as stated: the first 30 of the ranking of the merged top-10 lists
\* have the scores of the first 30 of all the itineraries formed
C19_TopSavedPreserved ==
    RankingDone => Take(Ranked, 30) = Take(AllFormed, 30)

\* C19: keeping the 10 lowest-scoring itineraries of each builder call keeps
\* the 10 lowest-scoring of all: the first 10 of the ranking of the merged
\* lists have the scores of the first 10 of all the itineraries formed; the
\* entries after the tenth need not be those of the untruncated ranking
C19_TopTenPreserved ==
    RankingDone => Take(Ranked, 10) = Take(AllFormed, 10)

\* a finished sweep one of whose builder calls formed more than 10
\* itineraries, the eleventh of which would have been among the first 30
C19_Witness ==
    /\ RankingDone
    /\ \E k \in DOMAIN runs : Len(runs[k].formed) > 10 /\ Len(runs[k].returned) = 10
    /\ Len(AllFormed) > 30
    /\ Take(Ranked, 30) # Take(AllFormed, 30)
    /\ Take(Ranked, 10) = Take(AllFormed, 10)

\* the candidate lists of the optimizer's builders: those of the call at hand
OptimizerLists == IF prog \in {"optimizer", "call"} THEN cands ELSE <<>>

\* the candidate lists build_scenarios looked up, of every grid point so far
AnalyzeLists ==
    IF prog = "sweep" THEN Flatten([k \in DOMAIN runs |-> runs[k].lists] \o <<>>) ELSE <<>>

\* the score of the i-th offer of a busy route, whose price is 900 - 10 * i,
\* which takes 10 hours and has a stop when i is odd
BusyScore(i) == (900 - 10 * i) + 10 * COST_PER_HOUR + (IF i % 2 = 1 THEN COST_PER_STOP ELSE 0)

\* the number of offers of a busy route of n that score lower than the i-th,
\* or as much and come before it
BusyRank(i, n) ==
    Cardinality({j \in 1..n : BusyScore(j) < BusyScore(i)
                                 \/ (BusyScore(j) = BusyScore(i) /\ j < i)}) + 1

\* the lists of a search_trip_option call on busy routes hold the offers of
\* the 20 lowest scores
LowestTwentyKept ==
    (prog = "call" /\ pc = "returned" /\ args.offers[1] > 0) =>
       \A k \in 1..3 :
          /\ Len(cands[k]) = Min2(20, args.offers[k])
          /\ \A i \in 1..args.offers[k] :
                (\E p \in DOMAIN cands[k] : cands[k][p].price = 900 - 10 * i)
                   <=> BusyRank(i, args.offers[k]) <= 20

\* the claim as stated: every candidate list of either program is in
\* ascending order of score and has at most 20 legs, the lowest-scoring
C20_ListsSortedByScore ==
    /\ \A k \in DOMAIN OptimizerLists :
          /\ Ascending(LegScores(OptimizerLists[k]))
          /\ Len(OptimizerLists[k]) <= 20
    /\ LowestTwentyKept
    /\ \A k \in DOMAIN AnalyzeLists :
          /\ Ascending([i \in DOMAIN AnalyzeLists[k] |-> Flight_score(AnalyzeLists[k][i])] \o <<>>)
          /\ Len(AnalyzeLists[k]) <= 20

\* C20: every candidate leg list flight_optimizer.py hands to its builders is
\* in ascending order of score() and has at most 20 legs, the 20 lowest-scoring
\* that passed the filter; the lists flight_sweep_analyze.py builds its
\* scenarios from are in ascending order of price
C20_OptimizerByScoreAnalyzeByPrice ==
    /\ \A k \in DOMAIN OptimizerLists :
          /\ Ascending(LegScores(OptimizerLists[k]))
          /\ Len(OptimizerLists[k]) <= 20
    /\ LowestTwentyKept
    /\ \A k \in DOMAIN AnalyzeLists : Ascending(Prices(AnalyzeLists[k]))

\* a search of 21 offers gave search_trip_option a list of 20 legs, without
\* the dearest offer, which has the highest score
C20_Witness ==
    /\ prog = "call" /\ pc = "returned"
    /\ args.offers[1] = 21
    /\ Len(cands[1]) = 20
    /\ \A p \in DOMAIN cands[1] : cands[1][p].price # 890
    /\ score(cands[1][1]) < score(cands[1][20])

-----------------------------------------------------------------------------
(* C21: offers that lack a required field *)

\* the answer of the provider that the optimizer's Duffel search got
OneWayAnswer(kind) == CHOOSE r \in {NominalOneWay} \cup FaultyOneWay : r.kind = kind

\* the offer has segments, a price that is a number, and a slice duration
HasRequiredFields(offer) ==
    /\ offer.slices # <<>>
    /\ offer.slices[1].segments # <<>>
    /\ offer.total_amount.kind = "num"
    /\ (offer.slices[1].duration.H # <<>> \/ offer.slices[1].duration.M # <<>>)

\* the offer is within the hard constraints: at most MAX_STOPS stops, one carrier
WithinConstraints(offer) ==
    /\ Len(offer.slices[1].segments) - 1 <= MAX_STOPS
    /\ Cardinality({offer.slices[1].segments[i].carrier :
                       i \in DOMAIN offer.slices[1].segments}) = 1

\* the prices of the legs the valid offers of an answer stand for
ValidPrices(offers) ==
    { offers[i].total_amount.val :
        i \in { j \in DOMAIN offers : HasRequiredFields(offers[j]) /\ WithinConstraints(offers[j]) } }

\* C21: the Duffel adapter of the optimizer returns exactly the legs of the
\* offers that have all required fields (and pass the constraints), whatever
\* other offers the same response carries, and no returned leg has the price
\* zero that stands for a missing price.
C21_SkipsOnlyMalformedOffers ==
    (prog = "optimizer" /\ pc \in {"strategy_a", "crashed_adapter"} /\ lastFetch # <<>>
        /\ lastFetch[1].adapter = "search_flights_duffel" /\ lastFetch[1].response # "transport_failure")
    => LET legs == lastFetch[1].legs
           offers == OneWayAnswer(lastFetch[1].response).offers
       IN /\ { legs[i].price : i \in DOMAIN legs } = ValidPrices(offers)
          /\ Len(legs) = Cardinality(ValidPrices(offers))
          /\ \A i \in DOMAIN legs : legs[i].price # 0

-----------------------------------------------------------------------------
(* C22: the two legs of a round-trip offer *)

\* the answer of the provider that the optimizer's round-trip search got
RoundTripAnswer(kind) == CHOOSE r \in {NominalRoundTrip} \cup FaultyRoundTrip : r.kind = kind

\* the optimizer is just back from search_roundtrip_duffel
RoundtripSearched ==
    /\ prog = "optimizer" /\ pc \in {"strategy_b", "crashed_adapter"}
    /\ lastFetch # <<>> /\ lastFetch[1].adapter = "search_roundtrip_duffel"

\* the slice k of the offer makes a leg that passes_constraints() lets through
SlicePasses(offer, k) ==
    /\ offer.slices[k].segments # <<>>
    /\ passes_constraints(RtLeg(offer, k, "SEA", "MXP", <<2026, 5, 2>>))

\* the offers of a round-trip answer that have two slices
Pairs(offers) == { offers[i] : i \in { j \in DOMAIN offers : Len(offers[j].slices) = 2 } }

PricesOf(legs) == { legs[i].price : i \in DOMAIN legs }

\* the round-trip offers of a cache file whose slice passes the filter of the
\* analyze phase
CachedPasses(o, side) ==
    AcceptedRoundtrip(RoundtripFlight(o, side[1], "SEA", "MXP", <<2026, 5, 2>>))

\* the cache file of the round-trip search k of the grid point n
RoundTripFile(n, k) ==
    LET g == GridPoint(n)
        d == CollectLegDates(g.depart_date, g.europe_nights, g.india_nights)
    IN IF k = 1 THEN <<"duffel", "SEA", "MXP", g.depart_date, "rt", d.return_date>>
       ELSE <<"duffel", "MXP", "HYD", d.leg2_date, "rt", d.leg3_date>>

\* the round-trip lists build_scenarios looked up last hold the legs, priced
\* T/2, of the cached offers whose slice passes, each side on its own
AnalyzeSidesIndependent ==
    (prog = "sweep" /\ runs # <<>>) =>
        LET n == Len(runs)
        IN  \A k \in 1..2 :
                LET f == RoundTripFile(runs[n].option, k)
                    os == IF f \in DOMAIN cache THEN cache[f].data.offers ELSE <<>>
                IN /\ PricesOf(runs[n].lists[2 * k - 1]) =
                         { Half(os[i].total_price[1]) :
                             i \in { j \in DOMAIN os : CachedPasses(os[j], os[j].outbound) } }
                   /\ PricesOf(runs[n].lists[2 * k]) =
                         { Half(os[i].total_price[1]) :
                             i \in { j \in DOMAIN os : CachedPasses(os[j], os[j].return) } }

-----------------------------------------------------------------------------
(* C23: layovers *)

\* the layovers, in minutes, that the times of the segments of a slice tell
KnownLayovers(segments) ==
    { segments[i + 1].departing_at[1] - segments[i].arriving_at[1] :
        i \in { j \in 1..(Len(segments) - 1) :
                  segments[j].arriving_at # <<>> /\ segments[j + 1].departing_at # <<>> } }

\* the first slice of the offer has a layover known to be above the maximum
LongLayover(offer) ==
    /\ offer.slices # <<>>
    /\ \E l \in KnownLayovers(offer.slices[1].segments) : l > MAX_LAYOVER_HOURS * 60

\* the lists build_scenarios looked up last: three of one-way flights, four of
\* round-trip flights
LastLists ==
    IF prog = "sweep" /\ runs # <<>>
    THEN runs[Len(runs) - 1].lists \o runs[Len(runs)].lists
    ELSE <<>>

\* C23: a leg with a computed layover above MAX_LAYOVER_HOURS is rejected at
\* ingestion and a leg without layover data is not rejected for that: the
\* legs the optimizer's Duffel search returns hold no leg of an offer with such
\* a layover, and neither do the lists and scenarios of the analyze phase.
C23_NoLongLayoverIngested ==
    /\ (prog = "optimizer" /\ lastFetch # <<>>
           /\ lastFetch[1].adapter = "search_flights_duffel"
           /\ lastFetch[1].response # "transport_failure")
       => LET offers == OneWayAnswer(lastFetch[1].response).offers
          IN \A i \in DOMAIN offers :
                (LongLayover(offers[i]) /\ offers[i].total_amount.kind = "num")
                    => offers[i].total_amount.val \notin PricesOf(lastFetch[1].legs)
    /\ \A k \in DOMAIN LastLists : \A i \in DOMAIN LastLists[k] :
          \/ LastLists[k][i].max_layover_hours = <<>>
          \/ LastLists[k][i].max_layover_hours[1] <= MAX_LAYOVER_HOURS * 60
    /\ prog = "sweep" =>
          \A s \in DOMAIN scenarios : \A i \in DOMAIN scenarios[s].legs :
              \/ scenarios[s].legs[i].max_layover_hours = <<>>
              \/ scenarios[s].legs[i].max_layover_hours[1] <= MAX_LAYOVER_HOURS * 60
    /\ (prog = "leg" /\ verdict # <<>> /\ verdict[1].of = "Flight" /\ leg.layover = <<>>
           /\ leg.stops <= MAX_STOPS /\ leg.airline \in {<<LH>>, <<>>})
       => verdict[1].passes

-----------------------------------------------------------------------------
(* C24: the denylist of test carriers *)

\* the carrier names of the provider's answers that hold the fragment "Duffel"
\* or "Test" in some spelling
TestCarrierNames == {DUFFEL_AIRWAYS, TEST_AIR}

NamesTestCarrier(airline) == \E i \in DOMAIN airline : airline[i] \in TestCarrierNames

NoTestCarrier(legs) == \A i \in DOMAIN legs : ~NamesTestCarrier(legs[i].airline)

\* C24: in the analyze phase no leg of a looked-up list, of a built scenario,
\* of the printed ranking or of the results file is on a carrier whose name
\* holds "Duffel" or "Test", in whatever case.
C24_NoTestCarrierInScenarios ==
    prog = "sweep" =>
        /\ \A k \in DOMAIN LastLists : NoTestCarrier(LastLists[k])
        /\ \A s \in DOMAIN scenarios : NoTestCarrier(scenarios[s].legs)
        /\ \A p \in DOMAIN printed : \A s \in DOMAIN printed[p].items :
              NoTestCarrier(printed[p].items[s].legs)
        /\ \A p \in DOMAIN persisted : \A s \in DOMAIN persisted[p] :
              NoTestCarrier(persisted[p][s].legs)

\* the one-way search of the first grid point was answered with offers of
\* "Duffel Airways" and "TEST AIR", both cheaper than the real ones, the offers
\* are in the cache, and the ranking was written
C24_Witness ==
    /\ prog = "sweep" /\ pc = "done" /\ persisted # <<>>
    /\ \E f \in DOMAIN cache :
          /\ f = <<"duffel", "SEA", "MXP", analyze_DEPARTURE_DATES[1]>>
          /\ \E i, j \in DOMAIN cache[f].data.offers :
                /\ cache[f].data.offers[i].airline = <<DUFFEL_AIRWAYS>>
                /\ cache[f].data.offers[j].airline = <<TEST_AIR>>
    /\ \E s \in DOMAIN scenarios :
          /\ scenarios[s].depart_date = analyze_DEPARTURE_DATES[1]
          /\ scenarios[s].strategy = "one_way_x3"

-----------------------------------------------------------------------------
(* C25: leg dates and the declared trip *)

\* the dates of the legs start at the trip's start, never go back, and end
\* no later than the trip's end
DatesWithinTrip(legs, depart_date, return_date) ==
    /\ legs # <<>> => legs[1].date = depart_date
    /\ \A i \in 1..(Len(legs) - 1) : strptime(legs[i].date) <= strptime(legs[i + 1].date)
    /\ \A i \in DOMAIN legs : strptime(legs[i].date) <= strptime(return_date)

\* C25: in every itinerary the optimizer's main emits and every scenario the
\* analyze phase builds, of either strategy, the leg dates are non-decreasing
\* in leg order, the first is the declared start of the trip, and none is
\* later than the declared return date, over which the weekdays are counted.
C25_LegDatesWithinTrip ==
    /\ prog = "optimizer" =>
          \A n \in DOMAIN all_itineraries :
              DatesWithinTrip(all_itineraries[n].legs, all_itineraries[n].depart_date,
                              all_itineraries[n].return_date)
    /\ prog = "sweep" =>
          /\ \A n \in DOMAIN built :
                DatesWithinTrip(built[n].legs, built[n].depart_date,
                                Scenario_return_date(built[n]))
          /\ \A p \in DOMAIN persisted : \A n \in DOMAIN persisted[p] :
                DatesWithinTrip(persisted[p][n].legs, persisted[p][n].depart_date,
                                persisted[p][n].return_date)

-----------------------------------------------------------------------------
(* C26: the weekday count *)

\* the calls of count_weekdays made so far
Counted == IF prog = "weekdays" THEN returns ELSE <<>>

\* C26: count_weekdays(start, end), and Scenario.weekdays of a trip from start
\* to end, is the number of dates from start to end, both included, that fall
\* on Monday to Friday; with the start fixed it does not decrease as the end
\* moves later; from a Saturday to the Sunday 29 days later it is 20.
C26_WeekdayCount ==
    \A i \in DOMAIN Counted :
        LET c == Counted[i]
        IN /\ c.weekdays = WeekdaysBetween(strptime(c.start_date), strptime(c.end_date))
           /\ c.scenario # <<>> => c.scenario[1] = c.weekdays
           /\ \A j \in DOMAIN Counted :
                 (Counted[j].start_date = c.start_date
                     /\ strptime(Counted[j].end_date) >= strptime(c.end_date))
                 => Counted[j].weekdays >= c.weekdays
           /\ (c.start_date = <<2026, 5, 2>> /\ c.end_date = <<2026, 5, 31>>) => c.weekdays = 20

\* the weekdays from Saturday 2026-05-02 to Sunday 2026-05-31 were counted,
\* after those of every shorter range with that start
C26_Witness ==
    /\ prog = "weekdays"
    /\ Len(returns) = 31
    /\ returns[31].start_date = <<2026, 5, 2>> /\ returns[31].end_date = <<2026, 5, 31>>
    /\ weekday(strptime(returns[31].start_date)) = 5
    /\ weekday(strptime(returns[31].end_date)) = 6
    /\ returns[31].weekdays = 20 /\ returns[31].scenario = <<20>>
    /\ returns[1].weekdays = 0 /\ returns[4].weekdays = 1

-----------------------------------------------------------------------------
(* C27: the delay between calls to Duffel *)

\* the last call to Duffel came no sooner than the rate-limit delay after the
\* one before it
DelayKept == pace.gap = <<>> \/ pace.gap[1] >= RATE_LIMIT_DELAY

\* C27 as stated: every call to Duffel after the first is issued at least
\* the rate-limit delay after the one before it, in the collect phase and in
\* the leg searches of the direct optimizer.
C27_DelayBetweenDuffelCalls ==
    prog \in {"sweep", "optimizer"} => DelayKept

\* C27, amended: in the collect phase every call to Duffel after the first is
\* issued at least the rate-limit delay after the one before it; the direct
\* optimizer issues its leg searches one after the other without a delay.
C27_DelayInCollectOnly ==
    /\ prog = "sweep" => DelayKept
    /\ prog = "optimizer" =>
          /\ pace.gap \in {<<>>, <<0>>}
          /\ Len(cands) >= 2 => pace.gap = <<0>>

\* the collect phase has called Duffel for a one-way search and, after the
\* save, the delay and a Google search with its own delay, called it again
C27_Witness ==
    /\ prog = "sweep" /\ pc = "collect"
    /\ netCalls >= 4
    /\ pending # <<>> /\ pending[1].task.source = "duffel"
    /\ pace.since = <<0>>
    /\ pace.gap = <<RATE_LIMIT_DELAY + GOOGLE_DELAY>>

-----------------------------------------------------------------------------
(* C28: the cache keys of the two phases *)

\* the leg dates the collect phase derives for the n-th point of its grid
CollectPointDates(n) ==
    CollectLegDates(collect_DEPARTURE_DATES[((n - 1) \div 9) + 1],
                    collect_EUROPE_NIGHTS_OPTIONS[(((n - 1) \div 3) % 3) + 1],
                    collect_INDIA_NIGHTS_OPTIONS[((n - 1) % 3) + 1])

\* the files the collect phase writes for the searches of one strategy of its
\* n-th grid point, in the order in which the analyze phase asks for them
CollectFilesOf(n, strategy) ==
    LET d == CollectPointDates(n)
    IN IF strategy = "one_way_x3"
       THEN << get_cache_path("google", "SEA", "MXP", d.leg1_date, <<>>),
               get_cache_path("duffel", "SEA", "MXP", d.leg1_date, <<>>),
               get_cache_path("google", "MXP", "HYD", d.leg2_date, <<>>),
               get_cache_path("duffel", "MXP", "HYD", d.leg2_date, <<>>),
               get_cache_path("google", "HYD", "SEA", d.leg3_date, <<>>),
               get_cache_path("duffel", "HYD", "SEA", d.leg3_date, <<>>) >>
       ELSE << get_cache_path("duffel", "SEA", "MXP", d.leg1_date, <<d.return_date>>),
               get_cache_path("duffel", "MXP", "HYD", d.leg2_date, <<d.leg3_date>>) >>

\* every file name the collect phase computes from its grid
CollectFiles ==
    LET all == calculate_all_dates
    IN { get_cache_path(s, k[1], k[2], k[3], <<>>) : s \in {"google", "duffel"}, k \in all.one_way }
         \cup { get_cache_path("duffel", k[1], k[2], k[3], <<k[4]>>) : k \in all.round_trip }

\* the run records of the pass of build_scenarios just made
LastPass == IF prog = "sweep" /\ runs # <<>> THEN {Len(runs) - 1, Len(runs)} ELSE {}

\* C28: for each grid point the files the analyze phase asks for are, name by
\* name and so date by date, the files the collect phase computes for that
\* point; each is among the files collect writes and is in the cache when
\* analyze asks for it.
C28_AnalyzeKeysAreCollectKeys ==
    \A i \in LastPass :
        /\ runs[i].lookups = CollectFilesOf(runs[i].option, runs[i].strategy)
        /\ \A k \in DOMAIN runs[i].lookups :
              /\ runs[i].lookups[k] \in CollectFiles
              /\ runs[i].lookups[k] \in DOMAIN cache

\* build_scenarios has gone through the whole grid and read round-trip files
\* as well as one-way files
C28_Witness ==
    /\ prog = "sweep" /\ pc = "report"
    /\ Len(runs) = 2 * GridSize
    /\ runs[Len(runs)].option = GridSize
    /\ runs[Len(runs)].strategy = "round_trip_x2"
    /\ Len(runs[Len(runs)].lookups) = 2 /\ Len(runs[Len(runs)].lookups[2]) = 6
    /\ runs[Len(runs)].lists[1] # <<>>
    /\ Cardinality(DOMAIN cache) = Cardinality(CollectFiles)

-----------------------------------------------------------------------------
(* C29: a second run of collect_all_data *)

\* collect_all_data has gone through all its searches
CollectFinished == prog = "sweep" /\ todo = <<>> /\ pending = <<>>

\* what was fetched is what the step writes, under the name of its search; a
\* search that failed is written with its error and no offers
FetchedIsStored ==
    pending # <<>> =>
        LET t == pending[1].task
            data == pending[1].data
            path == get_cache_path(t.source, t.origin, t.dest, t.date, t.return_date)
        IN /\ path \in DOMAIN cache'
           /\ cache'[path].data = data
           /\ (data.error # <<>> =>
                 IF t.source = "google" THEN data.flights = <<>> ELSE data.offers = <<>>)

\* the second run asks no provider and touches no file
SecondRunIdle ==
    pc = "collect_again" =>
        /\ cache' = cache
        /\ netCalls' = netCalls
        /\ pending' = <<>>
        /\ faults' = faults

\* C29: once a run of collect_all_data has finished every file of its grid is
\* in the cache, a failed search having been written with its error and an
\* empty list of offers; a second run over the same grid fetches nothing,
\* leaves every file as it is, and so never retries a failed search.
C29_SecondRunFetchesNothing ==
    /\ [](CollectFinished => CollectFiles \subseteq DOMAIN cache)
    /\ [][FetchedIsStored /\ SecondRunIdle]_vars

\* a second run has gone through the whole grid over a cache that holds the
\* result of a failed Duffel search
C29_Witness ==
    /\ prog = "sweep" /\ pc = "collect_again" /\ todo = <<>>
    /\ netCalls > 0
    /\ \E f \in DOMAIN cache :
          /\ cache[f].source = "duffel"
          /\ cache[f].data.error # <<>>
          /\ cache[f].data.offers = <<>>
    /\ \E f \in DOMAIN cache : cache[f].data.error = <<>>

-----------------------------------------------------------------------------
(* C30: the range of a PomodoroSession *)

\* the session number is within 1..total_sessions, and a break is in course
\* only before the last session
SessionInRange ==
    /\ 1 <= session.current_session
    /\ session.current_session <= session.total_sessions
    /\ (session.phase \in {SHORT_BREAK, LONG_BREAK} =>
           session.current_session < session.total_sessions)

\* a step from a complete session: it stays complete, and advance() returns
\* False and leaves phase and session number as they were
CompleteIsFinal ==
    (InSession /\ is_complete(session)) =>
        /\ is_complete(session')
        /\ AdvanceCalled =>
              /\ returns'[Len(returns')] = FALSE
              /\ session'.phase = session.phase
              /\ session'.current_session = session.current_session

\* C30: in every state a PomodoroSession of total_sessions >= 1 reaches by
\* calls of advance(), 1 <= current_session <= total_sessions and a break is
\* in course only while current_session < total_sessions; a complete session
\* stays complete, and every further advance() returns False and changes
\* neither phase nor current_session.
C30_SessionStaysInRange ==
    /\ [](InSession => (session.total_sessions >= 1 /\ SessionInRange))
    /\ [][CompleteIsFinal]_vars

\* advance() was called twice more on a session of five work phases that its
\* ninth call had completed
C30_Witness ==
    /\ InSession
    /\ session.total_sessions = 5
    /\ Len(returns) = 11
    /\ returns[9] = FALSE /\ returns[10] = FALSE /\ returns[11] = FALSE
    /\ is_complete(session)
    /\ session.phase = WORK /\ session.current_session = 5

=============================================================================
